---- MODULE Spec2Model ----
(***************************************************************************)
(* A model of the linking engine and the strategies of bw2io               *)
(* (strategies/generic.py), of the uncertainty extraction of the           *)
(* ecospold2 extractor (extractors/ecospold2.py) and of the SimaPro LCIA   *)
(* CSV extractor (extractors/simapro_lcia_csv.py).                         *)
(*                                                                         *)
(* Python dictionaries are modelled as functions from key strings to       *)
(* values: a key is present iff it is in the DOMAIN of the function.       *)
(* Python lists are sequences, pairs (database, code) are 2-tuples and     *)
(* None / a falsy `input` is the empty tuple.                              *)
(***************************************************************************)
EXTENDS Integers, Sequences, FiniteSets, TLC

VARIABLES
    unlinked,   \* the collection of datasets the strategies mutate in place
    call,       \* the arguments of the last strategy call
    before,     \* the collection as it was when the last call started
    outcome,    \* how the last call ended: returned or raised, with the error
    element,    \* the exchange or parameter element read by the ecospold2 extractor
    extracted,  \* what extract_uncertainty_dict made of it
    lines,      \* the rows of the file read by the SimaPro LCIA extractor
    line_index, \* the row the extractor is at (`index` in the code), counted from 0
    scan        \* where the extractor is in its code, and what it has read

linking == <<unlinked, call, before, outcome>>
extraction == <<element, extracted>>
scanning == <<lines, line_index, scan>>
vars == <<linking, extraction, scanning>>

(***************************************************************************)
(* Bounds of the model.                                                    *)
(***************************************************************************)
MaxDatasets == 1      \* datasets in the unlinked collection
MaxExchanges == 2     \* exchanges in the whole unlinked collection
MaxOther == 3         \* candidate records in an external pool
MaxScale == 30        \* largest scale (variance) of a distribution element
MaxWorkingSet == 2    \* datasets in the working set of a pipeline
MaxCalls == 2         \* strategies applied in succession by a pipeline
MaxSteps == 3         \* calls made in succession on a record set that is linked
MaxLines == 4         \* rows after the header of a file of arbitrary rows
MaxSets == 2          \* Normalization-Weighting sets of a method

(***************************************************************************)
(* Generic helpers for dictionaries and lists.                             *)
(***************************************************************************)
None == <<>>

Get(obj, key, default) == IF key \in DOMAIN obj THEN obj[key] ELSE default

SetItem(obj, key, value) ==
    [k \in (DOMAIN obj) \cup {key} |-> IF k = key THEN value ELSE obj[k]]

Update(obj, other) ==
    [k \in (DOMAIN obj) \cup (DOMAIN other) |->
        IF k \in DOMAIN other THEN other[k] ELSE obj[k]]

Delete(obj, keys) == [k \in (DOMAIN obj) \ keys |-> obj[k]]

SeqsUpTo(S, n) == UNION {[1..m -> S] : m \in 0..n}

(***************************************************************************)
(* activity_hash (bw2io/utils.py): the fingerprint of a record over a      *)
(* list of fields. Each field value is case-folded and stripped, a         *)
(* missing field is the empty marker, and the values are joined in the     *)
(* order of the field list.                                                *)
(***************************************************************************)
Normalized ==
    [s \in {"steel", "Steel", " STEEL ", "iron", "Iron", "kg", "KG", "",
            "kilogram", "Unknown"} |->
        CASE s \in {"steel", "Steel", " STEEL "} -> "steel"
          [] s \in {"iron", "Iron"} -> "iron"
          [] s \in {"kg", "KG"} -> "kg"
          [] s = "kilogram" -> "kilogram"
          [] s = "Unknown" -> "unknown"
          [] OTHER -> ""]

activity_hash(ds, fields) ==
    [i \in 1..Len(fields) |-> Normalized[Get(ds, fields[i], "")]]

(***************************************************************************)
(* format_nonunique_key_error: the message of the ambiguity error. It      *)
(* shows the problematic object and the list `others`, each reduced to     *)
(* the fields used for linking plus `filename`. The list of fields is      *)
(* always given here, so the default list is never used.                   *)
(***************************************************************************)
format_nonunique_key_error(obj, fields, others) ==
    LET fields_to_print == fields \o <<"filename">>
        Shown(x) == [i \in 1..Len(fields_to_print) |->
                        <<fields_to_print[i], Get(x, fields_to_print[i], "(missing)")>>]
    IN  [text |-> "Object in source database can't be uniquely linked to target database.",
         ds |-> Shown(obj),
         targets |-> [i \in 1..Len(others) |-> Shown(others[i])]]

NoMessage == [text |-> ""]

MissingIdentityMessage ==
    [text |-> "Not all datasets in database to be linked have database or code attributes"]

(***************************************************************************)
(* link_iterable_by_fields, lines 155-165: the filter on exchanges.        *)
(* A falsy `kind` (None or empty) means no filter on the type.             *)
(***************************************************************************)
\* Mutant: the relinking guard is missing.
filter_func_IgnoresInput(kind, relink, x) ==
    IF kind # {} THEN Get(x, "type", "") \in kind ELSE TRUE

\* Mutant: the kind filter is missing.
filter_func_IgnoresKind(kind, relink, x) ==
    IF relink THEN TRUE ELSE Get(x, "input", None) = None

filter_func(kind, relink, x) ==
    IF kind # {}
    THEN IF relink
         THEN Get(x, "type", "") \in kind
         ELSE Get(x, "type", "") \in kind /\ Get(x, "input", None) = None
    ELSE IF relink
         THEN TRUE
         ELSE Get(x, "input", None) = None

(***************************************************************************)
(* link_iterable_by_fields, lines 170-183: the candidate index and the     *)
(* duplicates registry. A record whose key is already in the index goes    *)
(* to the registry; otherwise its (database, code) pair is read, which     *)
(* raises when one of the two keys is missing.                             *)
(***************************************************************************)
\* Mutant: the pair is stored as (code, database).
AddCandidate_Swapped(index, ds, fields) ==
    LET key == activity_hash(ds, fields)
    IN  IF key \in DOMAIN index.candidates
        THEN [index EXCEPT !.duplicates =
                 SetItem(@, key, Append(Get(@, key, <<>>), ds))]
        ELSE IF "database" \notin DOMAIN ds \/ "code" \notin DOMAIN ds
             THEN [index EXCEPT !.raised = TRUE]
             ELSE [index EXCEPT !.candidates =
                      SetItem(@, key, <<ds["code"], ds["database"]>>)]

\* Mutant: every candidate goes to the duplicates registry, the first-seen included.
AddCandidate_AllInRegistry(index, ds, fields) ==
    LET key == activity_hash(ds, fields)
        registered == [index EXCEPT !.duplicates =
                          SetItem(@, key, Append(Get(@, key, <<>>), ds))]
    IN  IF key \in DOMAIN index.candidates
        THEN registered
        ELSE IF "database" \notin DOMAIN ds \/ "code" \notin DOMAIN ds
             THEN [index EXCEPT !.raised = TRUE]
             ELSE [registered EXCEPT !.candidates =
                      SetItem(@, key, <<ds["database"], ds["code"]>>)]

AddCandidate(index, ds, fields) ==
    LET key == activity_hash(ds, fields)
    IN  IF key \in DOMAIN index.candidates
        THEN [index EXCEPT !.duplicates =
                 SetItem(@, key, Append(Get(@, key, <<>>), ds))]
        ELSE IF "database" \notin DOMAIN ds \/ "code" \notin DOMAIN ds
             THEN [index EXCEPT !.raised = TRUE]
             ELSE [index EXCEPT !.candidates =
                      SetItem(@, key, <<ds["database"], ds["code"]>>)]

RECURSIVE BuildIndex(_, _, _, _)
BuildIndex(other, fields, i, index) ==
    IF i > Len(other) \/ index.raised
    THEN index
    ELSE BuildIndex(other, fields, i + 1, AddCandidate(index, other[i], fields))

EmptyIndex == [candidates |-> <<>>, duplicates |-> <<>>, raised |-> FALSE]

(***************************************************************************)
(* link_iterable_by_fields, lines 185-194: the loop over the exchanges.    *)
(* LinkObject is the body of the inner loop for one exchange that passed   *)
(* the filter: it raises on a key of the duplicates registry, sets         *)
(* `input` on a key of the index and leaves the exchange alone otherwise.  *)
(***************************************************************************)
\* Mutant: the index is consulted before the duplicates registry.
LinkObject_PrefersIndex(obj, fields, index) ==
    LET key == activity_hash(obj, fields)
    IN  IF key \in DOMAIN index.candidates
        THEN [obj |-> SetItem(obj, "input", index.candidates[key]),
              raised |-> FALSE, message |-> NoMessage]
        ELSE [obj |-> obj, raised |-> FALSE, message |-> NoMessage]

\* Mutant: `input` is written for every exchange, None when nothing matches.
LinkObject_WritesNone(obj, fields, index) ==
    LET key == activity_hash(obj, fields)
    IN  IF key \in DOMAIN index.duplicates
        THEN [obj |-> obj, raised |-> TRUE,
              message |-> format_nonunique_key_error(obj, fields, index.duplicates[key])]
        ELSE [obj |-> SetItem(obj, "input", Get(index.candidates, key, None)),
              raised |-> FALSE, message |-> NoMessage]

LinkObject(obj, fields, index) ==
    LET key == activity_hash(obj, fields)
    IN  IF key \in DOMAIN index.duplicates
        THEN [obj |-> obj, raised |-> TRUE,
              message |-> format_nonunique_key_error(obj, fields, index.duplicates[key])]
        ELSE IF key \in DOMAIN index.candidates
             THEN [obj |-> SetItem(obj, "input", index.candidates[key]),
                   raised |-> FALSE, message |-> NoMessage]
             ELSE [obj |-> obj, raised |-> FALSE, message |-> NoMessage]

RECURSIVE LinkExchanges(_, _, _, _, _, _)
LinkExchanges(excs, i, kind, relink, fields, index) ==
    IF i > Len(excs)
    THEN [exchanges |-> excs, raised |-> FALSE, message |-> NoMessage]
    ELSE IF ~filter_func(kind, relink, excs[i])
         THEN LinkExchanges(excs, i + 1, kind, relink, fields, index)
         ELSE LET r == LinkObject(excs[i], fields, index)
              IN  IF r.raised
                  THEN [exchanges |-> excs, raised |-> TRUE, message |-> r.message]
                  ELSE LinkExchanges([excs EXCEPT ![i] = r.obj], i + 1,
                                     kind, relink, fields, index)

RECURSIVE LinkContainers(_, _, _, _, _, _)
\* Mutant: the error is raised after the remaining datasets have been linked.
LinkContainers_GoesOn(db, d, kind, relink, fields, index) ==
    IF d > Len(db)
    THEN [db |-> db, raised |-> FALSE, message |-> NoMessage]
    ELSE IF "exchanges" \notin DOMAIN db[d]
         THEN LinkContainers(db, d + 1, kind, relink, fields, index)
         ELSE LET r == LinkExchanges(db[d]["exchanges"], 1, kind, relink, fields, index)
                  next == [db EXCEPT ![d] = SetItem(@, "exchanges", r.exchanges)]
                  rest == LinkContainers(next, d + 1, kind, relink, fields, index)
              IN  IF r.raised
                  THEN [db |-> rest.db, raised |-> TRUE, message |-> r.message]
                  ELSE rest

LinkContainers(db, d, kind, relink, fields, index) ==
    IF d > Len(db)
    THEN [db |-> db, raised |-> FALSE, message |-> NoMessage]
    ELSE IF "exchanges" \notin DOMAIN db[d]
         THEN LinkContainers(db, d + 1, kind, relink, fields, index)
         ELSE LET r == LinkExchanges(db[d]["exchanges"], 1, kind, relink, fields, index)
                  next == [db EXCEPT ![d] = SetItem(@, "exchanges", r.exchanges)]
              IN  IF r.raised
                  THEN [db |-> next, raised |-> TRUE, message |-> r.message]
                  ELSE LinkContainers(next, d + 1, kind, relink, fields, index)

\* Mutant: the exchanges are linked in a copy that is dropped on an error.
link_iterable_by_fields_RollsBack(db, other, fields, kind, internal, relink) ==
    LET pool == IF internal THEN db ELSE other
        index == BuildIndex(pool, fields, 1, EmptyIndex)
        linked == LinkContainers(db, 1, kind, relink, fields, index)
    IN  IF index.raised
        THEN [db |-> db, raised |-> TRUE, message |-> MissingIdentityMessage]
        ELSE IF linked.raised
             THEN [db |-> db, raised |-> TRUE, message |-> linked.message]
             ELSE linked

\* Mutant: the exchanges are linked against the part of the index built before
\* the missing-identity error.
link_iterable_by_fields_LinksFirst(db, other, fields, kind, internal, relink) ==
    LET pool == IF internal THEN db ELSE other
        index == BuildIndex(pool, fields, 1, EmptyIndex)
    IN  IF index.raised
        THEN [db |-> LinkContainers(db, 1, kind, relink, fields,
                                    [index EXCEPT !.raised = FALSE]).db,
              raised |-> TRUE, message |-> MissingIdentityMessage]
        ELSE LinkContainers(db, 1, kind, relink, fields, index)

\* Mutant: a duplicated candidate fails the call, matched or not.
link_iterable_by_fields_AnyDuplicate(db, other, fields, kind, internal, relink) ==
    LET pool == IF internal THEN db ELSE other
        index == BuildIndex(pool, fields, 1, EmptyIndex)
    IN  IF index.raised
        THEN [db |-> db, raised |-> TRUE, message |-> MissingIdentityMessage]
        ELSE IF DOMAIN index.duplicates # {}
             THEN [db |-> db, raised |-> TRUE,
                   message |-> format_nonunique_key_error(<<>>, fields, <<>>)]
             ELSE LinkContainers(db, 1, kind, relink, fields, index)

\* Mutant: the index and the registry of the first linking call are kept and
\* used by the calls after it.
link_iterable_by_fields_Cached(db, other, fields, kind, internal, relink) ==
    LET cached == IF "earlier" \notin DOMAIN call THEN [used |-> FALSE, pool |-> <<>>]
                  ELSE IF call.earlier.used THEN call.earlier
                  ELSE IF call.op = "link_iterable_by_fields"
                       THEN [used |-> TRUE,
                             pool |-> IF call.internal THEN before ELSE call.other]
                       ELSE [used |-> FALSE, pool |-> <<>>]
        pool == IF cached.used THEN cached.pool ELSE IF internal THEN db ELSE other
        index == BuildIndex(pool, fields, 1, EmptyIndex)
    IN  IF index.raised
        THEN [db |-> db, raised |-> TRUE, message |-> MissingIdentityMessage]
        ELSE LinkContainers(db, 1, kind, relink, fields, index)

link_iterable_by_fields(db, other, fields, kind, internal, relink) ==
    LET pool == IF internal THEN db ELSE other
        index == BuildIndex(pool, fields, 1, EmptyIndex)
    IN  IF index.raised
        THEN [db |-> db, raised |-> TRUE, message |-> MissingIdentityMessage]
        ELSE LinkContainers(db, 1, kind, relink, fields, index)

(***************************************************************************)
(* link_technosphere_by_activity_hash, lines 294-311. `databases` is the   *)
(* registry of the databases that exist and Database(name) the records     *)
(* of one of them; the name is optional. [x for x in seq if ...] is        *)
(* written with the flags of the records that are kept.                    *)
(***************************************************************************)
RECURSIVE Filter(_, _)
Filter(seq, keep) ==
    IF seq = <<>> THEN <<>>
    ELSE IF Head(keep) THEN <<Head(seq)>> \o Filter(Tail(seq), Tail(keep))
    ELSE Filter(Tail(seq), Tail(keep))

TECHNOSPHERE_TYPES == {"technosphere", "substitution", "production"}

databases ==
    [name \in {"B", "C"} |->
        IF name = "B"
        THEN << [database |-> "B", code |-> "X", name |-> "steel", type |-> "process"],
                [database |-> "B", code |-> "Y", name |-> " STEEL ", type |-> "emission"],
                [database |-> "B", code |-> "Z", name |-> "iron"] >>
        ELSE << [database |-> "C", code |-> "X", name |-> "steel", type |-> "process"],
                [database |-> "C", code |-> "Y", name |-> " STEEL ", type |-> "process"] >>]

Database(name) == databases[name]

\* external_db_name: None is [given |-> FALSE].
DatabaseNamed(name) == [given |-> TRUE, name |-> name]

CannotFindMessage == [text |-> "Can't find external database"]

\* Mutant: every record of the external database is a candidate.
process_records_AllTypes(name) == Database(name)

\* Lines 300-304.
process_records(name) ==
    LET records == Database(name)
    IN  Filter(records,
               [i \in 1..Len(records) |-> Get(records[i], "type", "process") = "process"])

link_technosphere_by_activity_hash(db, external_db_name, fields) ==
    IF external_db_name.given
    THEN IF external_db_name.name \notin DOMAIN databases
         THEN [db |-> db, raised |-> TRUE, message |-> CannotFindMessage]
         ELSE link_iterable_by_fields(db, process_records(external_db_name.name), fields,
                                      TECHNOSPHERE_TYPES, FALSE, FALSE)
    ELSE link_iterable_by_fields(db, <<>>, fields, TECHNOSPHERE_TYPES, TRUE, FALSE)

(***************************************************************************)
(* normalize_units of bw2io/units.py: a unit is replaced by its canonical  *)
(* name, and a canonical or unknown unit is left as it is.                 *)
(***************************************************************************)
normalize_units_function(unit) ==
    CASE unit \in {"kg", "KG"} -> "kilogram"
      [] OTHER -> unit

(***************************************************************************)
(* The other strategies of strategies/generic.py. Each is a loop over the  *)
(* datasets that mutates them in place; when the body raises on a dataset, *)
(* the datasets before it stay as the loop left them, the dataset itself   *)
(* stays as the body left it and the datasets after it are untouched.      *)
(* `done` gives, for each dataset, what the body of the loop leaves of it  *)
(* and whether the body raises on it.                                      *)
(***************************************************************************)
ForEachDataset(db, done) ==
    LET failed == {i \in 1..Len(db) : done[i].raised}
        stop == IF failed = {} THEN Len(db)
                ELSE CHOOSE i \in failed : \A j \in failed : i <= j
    IN  [db |-> [i \in 1..Len(db) |-> IF i <= stop THEN done[i].ds ELSE db[i]],
         raised |-> failed # {}]

\* A text field is truthy when it is present and not empty.
Truthy(obj, key) == key \in DOMAIN obj /\ obj[key] # ""

(***************************************************************************)
(* assign_only_product_as_production, lines 237-250. Reading the name of   *)
(* the product raises before the dataset is touched; reading its amount    *)
(* raises after `reference product` has been set.                          *)
(***************************************************************************)
IsProduction(x) == Get(x, "type", "") = "production"

\* Line 240.
production_exchanges(ds) ==
    LET exchanges == Get(ds, "exchanges", <<>>)
    IN  Filter(exchanges, [i \in 1..Len(exchanges) |-> IsProduction(exchanges[i])])

\* Mutant: several production exchanges are accepted and the first is taken.
only_product_AtLeastOne(products) == Len(products) >= 1

\* Line 241.
only_product(products) == Len(products) = 1

\* Mutant: the name of the product is taken also when it names a reference product.
reference_product_NameOnly(product) == product["name"]

\* Lines 244-246.
reference_product(product) ==
    IF Truthy(product, "reference product")
    THEN product["reference product"] ELSE product["name"]

\* Line 247.
production_amount(ds, product) == product["amount"]

assign_product(ds) ==
    LET products == production_exchanges(ds)
        product == products[1]
        named == SetItem(ds, "reference product", reference_product(product))
        amounted == SetItem(named, "production amount", production_amount(named, product))
        titled == SetItem(amounted, "name",
                          IF Truthy(ds, "name") THEN ds["name"] ELSE product["name"])
        united == SetItem(titled, "unit",
                          IF Truthy(ds, "unit") THEN ds["unit"]
                          ELSE IF Truthy(product, "unit") THEN product["unit"]
                          ELSE "Unknown")
    IN  IF Truthy(ds, "reference product") THEN [ds |-> ds, raised |-> FALSE]
        ELSE IF ~only_product(products) THEN [ds |-> ds, raised |-> FALSE]
        ELSE IF ~Truthy(product, "name") THEN [ds |-> ds, raised |-> TRUE]
        ELSE IF "amount" \notin DOMAIN product THEN [ds |-> named, raised |-> TRUE]
        ELSE [ds |-> united, raised |-> FALSE]

assign_only_product_as_production(db) ==
    ForEachDataset(db, [i \in 1..Len(db) |-> assign_product(db[i])])

(***************************************************************************)
(* set_code_by_activity_hash, lines 339-342, and add_database_name, lines  *)
(* 495-497. The digest that activity_hash returns is modelled by the       *)
(* fingerprint it digests, taken over the default fields of bw2io/utils.py;*)
(* a code that a dataset arrives with is a sequence too.                   *)
(***************************************************************************)
DEFAULT_FIELDS == <<"name", "categories", "unit", "reference product", "location">>

set_code_by_activity_hash(db, overwrite) ==
    LET set_code(ds) ==
            [ds |-> IF "code" \notin DOMAIN ds \/ overwrite
                    THEN SetItem(ds, "code", activity_hash(ds, DEFAULT_FIELDS))
                    ELSE ds,
             raised |-> FALSE]
    IN  ForEachDataset(db, [i \in 1..Len(db) |-> set_code(db[i])])

add_database_name(db, name) ==
    LET add_name(ds) == [ds |-> SetItem(ds, "database", name), raised |-> FALSE]
    IN  ForEachDataset(db, [i \in 1..Len(db) |-> add_name(db[i])])

(***************************************************************************)
(* tupleize_categories, lines 365-371. A `categories` value is tagged as   *)
(* a list or a tuple; an empty one is falsy and is left as it is.          *)
(***************************************************************************)
\* Mutant: the categories are wrapped in a tuple.
tuple_Wraps(categories) == [tuple |-> TRUE, items |-> <<categories.items>>]

tuple(categories) == [tuple |-> TRUE, items |-> categories.items]

tupleize(obj) ==
    IF "categories" \in DOMAIN obj /\ obj["categories"].items # <<>>
    THEN SetItem(obj, "categories", tuple(obj["categories"]))
    ELSE obj

tupleize_categories(db) ==
    LET tupleize_dataset(ds) ==
            LET top == tupleize(ds)
            IN  [ds |-> IF "exchanges" \in DOMAIN top
                        THEN SetItem(top, "exchanges",
                                 [i \in 1..Len(top["exchanges"]) |-> tupleize(top["exchanges"][i])])
                        ELSE top,
                 raised |-> FALSE]
    IN  ForEachDataset(db, [i \in 1..Len(db) |-> tupleize_dataset(db[i])])

(***************************************************************************)
(* drop_unlinked, lines 410-412. ds["exchanges"] raises KeyError on a      *)
(* dataset without exchanges.                                              *)
(***************************************************************************)
IsLinked(obj) == Get(obj, "input", None) # None

drop_unlinked_exchanges(exchanges) ==
    Filter(exchanges, [i \in 1..Len(exchanges) |-> IsLinked(exchanges[i])])

drop_unlinked(db) ==
    LET drop(ds) ==
            IF "exchanges" \notin DOMAIN ds THEN [ds |-> ds, raised |-> TRUE]
            ELSE [ds |-> SetItem(ds, "exchanges", drop_unlinked_exchanges(ds["exchanges"])),
                  raised |-> FALSE]
    IN  ForEachDataset(db, [i \in 1..Len(db) |-> drop(db[i])])

(***************************************************************************)
(* normalize_units, lines 455-466, and convert_activity_parameters_to_list,*)
(* lines 610-619. The `parameters` of a dataset are tagged as a dict, the  *)
(* sequence of its (key, value) items in insertion order, or as a list of  *)
(* dictionaries. A list has no .values() and no .items(): both strategies  *)
(* raise AttributeError on it, normalize_units after it has normalized     *)
(* the units of the dataset and of its exchanges.                          *)
(***************************************************************************)
normalize_unit_of(obj, key) ==
    IF key \in DOMAIN obj THEN SetItem(obj, key, normalize_units_function(obj[key])) ELSE obj

normalize_dataset_units(ds) ==
    LET top == normalize_unit_of(ds, "unit")
        excs == IF "exchanges" \in DOMAIN top
                THEN SetItem(top, "exchanges",
                         [i \in 1..Len(top["exchanges"]) |->
                             normalize_unit_of(normalize_unit_of(top["exchanges"][i], "unit"),
                                               "reference unit")])
                ELSE top
    IN  IF "parameters" \notin DOMAIN excs THEN [ds |-> excs, raised |-> FALSE]
        ELSE IF excs["parameters"].kind # "dict" THEN [ds |-> excs, raised |-> TRUE]
        ELSE [ds |-> SetItem(excs, "parameters",
                        [kind |-> "dict",
                         items |-> [i \in 1..Len(excs["parameters"].items) |->
                                      <<excs["parameters"].items[i][1],
                                        normalize_unit_of(excs["parameters"].items[i][2], "unit")>>]]),
              raised |-> FALSE]

normalize_units(db) ==
    ForEachDataset(db, [i \in 1..Len(db) |-> normalize_dataset_units(db[i])])

convert_parameters(ds) ==
    IF "parameters" \notin DOMAIN ds THEN [ds |-> ds, raised |-> FALSE]
    ELSE IF ds["parameters"].kind # "dict" THEN [ds |-> ds, raised |-> TRUE]
    ELSE [ds |-> SetItem(ds, "parameters",
                    [kind |-> "list",
                     items |-> [i \in 1..Len(ds["parameters"].items) |->
                                  SetItem(ds["parameters"].items[i][2], "name",
                                          ds["parameters"].items[i][1])]]),
          raised |-> FALSE]

convert_activity_parameters_to_list(data) ==
    ForEachDataset(data, [i \in 1..Len(data) |-> convert_parameters(data[i])])

(***************************************************************************)
(* split_exchanges, lines 659-687. allocation_factors is None or a list.   *)
(* The amounts of the model divide without remainder, so the true          *)
(* division of line 678 is the integer one here. In a dataset with a       *)
(* matching exchange, a zero total or a missing amount raises while the    *)
(* copies are made, before the exchanges of the dataset are touched.       *)
(***************************************************************************)
NoFactors == [given |-> FALSE]
Factors(list) == [given |-> TRUE, list |-> list]

RECURSIVE sum(_)
sum(list) == IF list = <<>> THEN 0 ELSE Head(list) + sum(Tail(list))

RECURSIVE Concat(_)
Concat(lists) == IF lists = <<>> THEN <<>> ELSE Head(lists) \o Concat(Tail(lists))

split_matches(exchange, filter_params) ==
    /\ ~IsLinked(exchange)
    /\ \A key \in DOMAIN filter_params :
          key \in DOMAIN exchange /\ exchange[key] = filter_params[key]

\* Lines 676-682: the copies of one exchange.
split_copies(exchange, changed_attributes, factors, total) ==
    [i \in 1..Len(changed_attributes) |->
        Update(SetItem(SetItem(exchange, "amount", (exchange["amount"] * factors[i]) \div total),
                       "uncertainty_type", 0),
               changed_attributes[i])]

split_dataset(ds, filter_params, changed_attributes, factors, total) ==
    LET exchanges == Get(ds, "exchanges", <<>>)
        matching == [i \in 1..Len(exchanges) |-> split_matches(exchanges[i], filter_params)]
        others == [i \in 1..Len(exchanges) |-> ~matching[i]]
        to_delete == Filter(exchanges, matching)
        to_add == Concat([i \in 1..Len(to_delete) |->
                             split_copies(to_delete[i], changed_attributes, factors, total)])
    IN  IF to_delete = <<>> THEN [ds |-> ds, raised |-> FALSE]
        ELSE IF changed_attributes # <<>>
                /\ (total = 0 \/ \E i \in 1..Len(to_delete) : "amount" \notin DOMAIN to_delete[i])
        THEN [ds |-> ds, raised |-> TRUE]
        ELSE [ds |-> SetItem(ds, "exchanges", Filter(exchanges, others) \o to_add),
              raised |-> FALSE]

split_exchanges(data, filter_params, changed_attributes, allocation_factors) ==
    LET factors == IF allocation_factors.given THEN allocation_factors.list
                   ELSE [i \in 1..Len(changed_attributes) |-> 1]
        total == sum(factors)
        split(ds) == split_dataset(ds, filter_params, changed_attributes, factors, total)
    IN  IF Len(changed_attributes) # Len(factors)
        THEN [db |-> data, raised |-> TRUE]
        ELSE ForEachDataset(data, [i \in 1..Len(data) |-> split(data[i])])

(***************************************************************************)
(* Ecospold2DataExtractor, extractors/ecospold2.py. An XML element is a    *)
(* dictionary of its attributes and children; a numeric attribute is the   *)
(* number its text denotes. A comment is the sequence of its pieces.       *)
(* The ids are those of the stats_arrays distributions.                    *)
(***************************************************************************)
UndefinedUncertainty == 0
LognormalUncertainty == 2
NormalUncertainty == 3
UniformUncertainty == 4
TriangularUncertainty == 5
LognormalCeiling == 25

PM_MAPPING ==
    [reliability |-> "reliability",
     completeness |-> "completeness",
     temporalCorrelation |-> "temporal correlation",
     geographicalCorrelation |-> "geographical correlation",
     furtherTechnologyCorrelation |-> "further technological correlation"]

InvalidNote == "; Invalid parameters - set to undefined uncertainty."

\* Mutant: the kind of the distribution is left as it was.
abort_exchange_KeepsKind(exc) ==
    LET located == SetItem(exc, "loc", exc["amount"])
        stripped == Delete(located, {"scale", "shape", "minimum", "maximum"})
    IN  SetItem(stripped, "comment", Append(Get(stripped, "comment", <<>>), InvalidNote))

abort_exchange(exc) ==
    LET typed == SetItem(exc, "uncertainty type", UndefinedUncertainty)
        located == SetItem(typed, "loc", typed["amount"])
        stripped == Delete(located, {"scale", "shape", "minimum", "maximum"})
    IN  SetItem(stripped, "comment", Append(Get(stripped, "comment", <<>>), InvalidNote))

\* The validity tests of lines 195, 205, 214 and 223.
\* Mutant: the ceiling itself is rejected.
lognormal_invalid_CeilingExcluded(scale) == scale <= 0 \/ scale >= LognormalCeiling

lognormal_invalid(scale) == scale <= 0 \/ scale > LognormalCeiling

\* Mutant: the log-normal ceiling is applied to the normal distribution too.
normal_invalid_WithCeiling(scale) == scale <= 0 \/ scale > LognormalCeiling

normal_invalid(scale) == scale <= 0

\* Mutant: equal bounds are accepted.
bounds_invalid_Strict(minimum, maximum) == minimum > maximum

bounds_invalid(minimum, maximum) == minimum >= maximum

\* Mutant: the indicators are stored under the names of the source format.
pedigree_dict_SourceNames(matrix) ==
    [key \in DOMAIN PM_MAPPING |-> matrix[key]]

pedigree_dict(matrix) ==
    [name \in {PM_MAPPING[key] : key \in DOMAIN PM_MAPPING} |->
        matrix[CHOOSE key \in DOMAIN PM_MAPPING : PM_MAPPING[key] = name]]

lognormal_dict(data, unc) ==
    LET typed == Update(data,
            [loc |-> unc["lognormal"]["mu"],
             scale |-> unc["lognormal"]["varianceWithPedigreeUncertainty"]]
            @@ ("uncertainty type" :> LognormalUncertainty))
        sided == IF "variance" \in DOMAIN unc["lognormal"]
                 THEN SetItem(typed, "scale without pedigree", unc["lognormal"]["variance"])
                 ELSE typed
    IN  IF lognormal_invalid(sided["scale"]) THEN abort_exchange(sided) ELSE sided

normal_dict(data, unc) ==
    LET typed == Update(data,
            [loc |-> unc["normal"]["meanValue"],
             scale |-> unc["normal"]["varianceWithPedigreeUncertainty"]]
            @@ ("uncertainty type" :> NormalUncertainty))
        sided == IF "variance" \in DOMAIN unc["normal"]
                 THEN SetItem(typed, "scale without pedigree", unc["normal"]["variance"])
                 ELSE typed
    IN  IF normal_invalid(sided["scale"]) THEN abort_exchange(sided) ELSE sided

triangular_dict(data, unc) ==
    LET typed == Update(data,
            [minimum |-> unc["triangular"]["minValue"],
             loc |-> unc["triangular"]["mostLikelyValue"],
             maximum |-> unc["triangular"]["maxValue"]]
            @@ ("uncertainty type" :> TriangularUncertainty))
    IN  IF bounds_invalid(typed["minimum"], typed["maximum"])
        THEN abort_exchange(typed) ELSE typed

uniform_dict(data, unc) ==
    LET typed == Update(data,
            [loc |-> data["amount"],
             minimum |-> unc["uniform"]["minValue"],
             maximum |-> unc["uniform"]["maxValue"]]
            @@ ("uncertainty type" :> UniformUncertainty))
    IN  IF bounds_invalid(typed["minimum"], typed["maximum"])
        THEN abort_exchange(typed) ELSE typed

undefined_dict(data) ==
    Update(data, [loc |-> data["amount"]] @@ ("uncertainty type" :> UndefinedUncertainty))

\* The result is the dictionary, or the ValueError of an unknown distribution.
\* An attribute that is present has a non-empty text, so obj.get(...) is truthy
\* exactly when the attribute is present.
extract_uncertainty_dict(obj) ==
    LET amount == [amount |-> obj["amount"]]
        formula == IF "formula" \in DOMAIN obj
                   THEN SetItem(amount, "formula", obj["formula"])
                   ELSE amount
    IN  IF "uncertainty" \in DOMAIN obj
        THEN LET unc == obj["uncertainty"]
                 data == IF "pedigreeMatrix" \in DOMAIN unc
                         THEN SetItem(formula, "pedigree", pedigree_dict(unc["pedigreeMatrix"]))
                         ELSE formula
             IN  CASE "lognormal" \in DOMAIN unc ->
                        [raised |-> FALSE, data |-> lognormal_dict(data, unc)]
                   [] "lognormal" \notin DOMAIN unc /\ "normal" \in DOMAIN unc ->
                        [raised |-> FALSE, data |-> normal_dict(data, unc)]
                   [] {"lognormal", "normal"} \cap DOMAIN unc = {}
                      /\ "triangular" \in DOMAIN unc ->
                        [raised |-> FALSE, data |-> triangular_dict(data, unc)]
                   [] {"lognormal", "normal", "triangular"} \cap DOMAIN unc = {}
                      /\ "uniform" \in DOMAIN unc ->
                        [raised |-> FALSE, data |-> uniform_dict(data, unc)]
                   [] {"lognormal", "normal", "triangular", "uniform"} \cap DOMAIN unc = {}
                      /\ "undefined" \in DOMAIN unc ->
                        [raised |-> FALSE, data |-> undefined_dict(data)]
                   [] OTHER ->
                        [raised |-> TRUE, data |-> data]
        ELSE [raised |-> FALSE, data |-> undefined_dict(formula)]

(***************************************************************************)
(* extract_exchange, lines 252-311. The element has a tag, attributes and  *)
(* children; the text of a child is its value here. The result is the      *)
(* exchange, or the ValueError of an unknown tag, of an elementary         *)
(* exchange in a product output group, or of extract_uncertainty_dict.     *)
(***************************************************************************)
IntermediateTag == "{http://www.EcoInvent.org/EcoSpold02}intermediateExchange"
ElementaryTag == "{http://www.EcoInvent.org/EcoSpold02}elementaryExchange"

is_product(exc) == "outputGroup" \in DOMAIN exc /\ exc["outputGroup"] \in {"0", "2"}

exchange_kind(exc, is_biosphere) ==
    IF is_product(exc) THEN "production"
    ELSE IF is_biosphere THEN "biosphere"
    ELSE "technosphere"

\* Mutant: the activity link is stored on every exchange.
exchange_head_ActivityAlways(exc, flow, is_biosphere) ==
    LET data == [flow |-> Get(exc, flow, None),
                 type |-> exchange_kind(exc, is_biosphere),
                 name |-> exc["name"]]
                @@ ("production volume" :> Get(exc, "productionVolumeAmount", 0))
        linked == SetItem(data, "activity", Get(exc, "activityLinkId", None))
        united == IF "unitName" \in DOMAIN exc
                  THEN SetItem(linked, "unit", normalize_units_function(exc["unitName"]))
                  ELSE linked
    IN  IF "comment" \in DOMAIN exc
        THEN SetItem(united, "comment", <<exc["comment"]>>)
        ELSE united

\* Lines 296-308: the fields read from the element itself.
exchange_head(exc, flow, is_biosphere) ==
    LET data == [flow |-> Get(exc, flow, None),
                 type |-> exchange_kind(exc, is_biosphere),
                 name |-> exc["name"]]
                @@ ("production volume" :> Get(exc, "productionVolumeAmount", 0))
        linked == IF ~is_biosphere
                  THEN SetItem(data, "activity", Get(exc, "activityLinkId", None))
                  ELSE data
        united == IF "unitName" \in DOMAIN exc
                  THEN SetItem(linked, "unit", normalize_units_function(exc["unitName"]))
                  ELSE linked
    IN  IF "comment" \in DOMAIN exc
        THEN SetItem(united, "comment", <<exc["comment"]>>)
        ELSE united

extract_exchange(exc) ==
    IF exc["tag"] \notin {IntermediateTag, ElementaryTag}
    THEN [raised |-> TRUE, data |-> <<>>]
    ELSE LET is_biosphere == exc["tag"] = ElementaryTag
             flow == IF is_biosphere THEN "elementaryExchangeId" ELSE "intermediateExchangeId"
         IN  IF is_biosphere /\ is_product(exc)
             THEN [raised |-> TRUE, data |-> <<>>]
             ELSE LET unc == extract_uncertainty_dict(exc)
                  IN  IF unc.raised
                      THEN [raised |-> TRUE, data |-> <<>>]
                      ELSE [raised |-> FALSE,
                            data |-> Update(exchange_head(exc, flow, is_biosphere), unc.data)]

(***************************************************************************)
(* SimaProLCIACSVExtractor of extractors/simapro_lcia_csv.py. A file is    *)
(* the list of its rows, a row the list of its cells, a blank line the     *)
(* empty row. `index` counts rows from 0 as in the code. Every exception   *)
(* but EndOfDatasets leaves extract uncaught; the result of a function     *)
(* that raises is [raised |-> TRUE]. Amounts and weights are whole         *)
(* numbers, for which the products of floats are exact.                    *)
(***************************************************************************)
SKIPPABLE_SECTIONS ==
    {"Airborne emissions", "Economic issues", "Emissions to soil", "Final waste flows",
     "Quantities", "Raw materials", "Units", "Waterborne emissions"}

Raises == [raised |-> TRUE]

\* Python's str.strip, str.lower and float on the texts of the files.
strip(text) == IF text \in {"End ", " End"} THEN "End" ELSE text
lower(text) == IF text = "Air" THEN "air" ELSE text
IsNumber(text) == text \in {"0", "0.0", "1", "2", "3", "5"}
float(text) ==
    CASE text \in {"0", "0.0"} -> 0
      [] text = "1" -> 1
      [] text = "2" -> 2
      [] text = "3" -> 3
      [] text = "5" -> 5

\* data[index] exists, and data[index] itself.
InRange(data, i) == i < Len(data)
RowAt(data, i) == data[i + 1]

\* Lines 118-129; SIMAPRO_BIOSPHERE maps the subcategory "Emissions to air".
parse_cf(line) ==
    IF Len(line) < 6 \/ ~IsNumber(line[5]) THEN Raises
    ELSE [raised |-> FALSE,
          cf |-> [amount |-> float(line[5]), name |-> line[3],
                  unit |-> normalize_units_function(line[6]),
                  categories |-> IF line[2] = "(unspecified)"
                                 THEN <<lower(line[1])>>
                                 ELSE <<lower(line[1]),
                                        IF line[2] = "Emissions to air" THEN "air"
                                        ELSE lower(line[2])>>]
                 @@ ("CAS number" :> line[4])]

\* Lines 132-142.
RECURSIVE read_metadata(_, _, _)
read_metadata(data, i, metadata) ==
    IF ~InRange(data, i) THEN Raises
    ELSE IF RowAt(data, i) = <<>> THEN read_metadata(data, i + 1, metadata)
    ELSE IF RowAt(data, i)[1] = "Impact category"
         THEN [raised |-> FALSE, metadata |-> metadata, index |-> i]
    ELSE IF ~InRange(data, i + 1) THEN Raises
    ELSE IF RowAt(data, i + 1) # <<>> /\ RowAt(data, i)[1] # ""
         THEN read_metadata(data, i + 2,
                            SetItem(metadata, RowAt(data, i)[1], RowAt(data, i + 1)[1]))
    ELSE read_metadata(data, i + 1, metadata)

\* Lines 206-208: the rows of the Substances section, up to a blank line.
RECURSIVE read_cfs(_, _, _)
read_cfs(data, i, cf_data) ==
    IF ~InRange(data, i) THEN Raises
    ELSE IF RowAt(data, i) = <<>> THEN [raised |-> FALSE, cf_data |-> cf_data, index |-> i]
    ELSE LET r == parse_cf(RowAt(data, i))
         IN  IF r.raised THEN Raises ELSE read_cfs(data, i + 1, Append(cf_data, r.cf))

\* Lines 199-209.
get_category_data(data, i) ==
    IF ~InRange(data, i) \/ ~InRange(data, i + 2) THEN Raises
    ELSE IF Len(RowAt(data, i)) < 2 \/ RowAt(data, i + 2) = <<>> THEN Raises
    ELSE IF RowAt(data, i + 2)[1] # "Substances" THEN Raises
    ELSE LET r == read_cfs(data, i + 3, <<>>)
         IN  IF r.raised THEN Raises
             ELSE [raised |-> FALSE, index |-> r.index,
                   catdata |-> [name |-> RowAt(data, i)[1], unit |-> RowAt(data, i)[2],
                                cf_data |-> r.cf_data]]

\* Lines 219-224: the rows of the Weighting section; a weight "0" is left out.
RECURSIVE read_weights(_, _, _)
read_weights(data, i, nw_data) ==
    IF ~InRange(data, i) THEN Raises
    ELSE IF RowAt(data, i) = <<>> THEN [raised |-> FALSE, nw_data |-> nw_data, index |-> i]
    ELSE IF Len(RowAt(data, i)) < 2 THEN Raises
    ELSE IF RowAt(data, i)[2] = "0" THEN read_weights(data, i + 1, nw_data)
    ELSE IF ~IsNumber(RowAt(data, i)[2]) THEN Raises
    ELSE read_weights(data, i + 1,
                      Append(nw_data, <<RowAt(data, i)[1], float(RowAt(data, i)[2])>>))

\* Lines 212-225.
get_normalization_weighting_data(data, i) ==
    IF ~InRange(data, i) \/ ~InRange(data, i + 2) THEN Raises
    ELSE IF RowAt(data, i) = <<>> \/ RowAt(data, i + 2) = <<>> THEN Raises
    ELSE IF RowAt(data, i + 2)[1] # "Weighting" THEN Raises
    ELSE LET r == read_weights(data, i + 3, <<>>)
         IN  IF r.raised THEN Raises
             ELSE [raised |-> FALSE, index |-> r.index,
                   nw_dataset |-> [name |-> RowAt(data, i)[1], nw_data |-> r.nw_data]]

\* The one element of a set: {e(r) : r \in {result}} evaluates a result once
\* and names it r in e.
Only(S) == CHOOSE x \in S : TRUE

\* Lines 152-163.
RECURSIVE read_sections(_, _, _, _)
read_sections(data, i, category_data, nw_data) ==
    IF ~InRange(data, i) THEN Raises
    ELSE IF RowAt(data, i) # <<>> /\ RowAt(data, i)[1] = "End"
         THEN [raised |-> FALSE, category_data |-> category_data, nw_data |-> nw_data,
               index |-> i]
    ELSE IF RowAt(data, i) = <<>> \/ RowAt(data, i)[1] = ""
         THEN read_sections(data, i + 1, category_data, nw_data)
    ELSE IF RowAt(data, i)[1] = "Impact category"
         THEN Only({IF r.raised THEN Raises
                    ELSE read_sections(data, r.index, Append(category_data, r.catdata),
                                       nw_data) :
                    r \in {get_category_data(data, i + 1)}})
    ELSE IF RowAt(data, i)[1] = "Normalization-Weighting set"
         THEN Only({IF r.raised THEN Raises
                    ELSE read_sections(data, r.index, category_data,
                                       Append(nw_data, r.nw_dataset)) :
                    r \in {get_normalization_weighting_data(data, i + 1)}})
    ELSE Raises

(***************************************************************************)
(* get_all_cfs, lines 186-196. The characterization factors are dicts      *)
(* that the lists of the datasets share: `amounts` is the store of their   *)
(* amounts, by category and place in the category, and a dataset holds     *)
(* references <<category, place>> into it. rescale multiplies the amount   *)
(* in the store.                                                           *)
(***************************************************************************)
AllReferences(category_data, c) ==
    [k \in 1..Len(category_data[c].cf_data) |-> <<c, k>>]

\* Lines 187-189, for the factors of one category.
rescale(amounts, c, scale) ==
    [amounts EXCEPT ![c] = [k \in 1..Len(@) |-> @[k] * scale]]

\* Lines 193-195: the categories, from category c on, for one weight.
RECURSIVE weigh_categories(_, _, _, _, _)
weigh_categories(category_data, c, nw_name, scale, r) ==
    IF c > Len(category_data) THEN r
    ELSE IF category_data[c].name = nw_name
         THEN weigh_categories(category_data, c + 1, nw_name, scale,
                               [amounts |-> rescale(r.amounts, c, scale),
                                cfs |-> r.cfs \o AllReferences(category_data, c)])
    ELSE weigh_categories(category_data, c + 1, nw_name, scale, r)

RECURSIVE get_all_cfs(_, _, _)
get_all_cfs(nw_data, category_data, r) ==
    IF nw_data = <<>> THEN r
    ELSE get_all_cfs(Tail(nw_data), category_data,
                     weigh_categories(category_data, 1, Head(nw_data)[1], Head(nw_data)[2], r))

\* Lines 174-181: the weighting sets from set s on; each gets the references
\* that get_all_cfs returns for it.
RECURSIVE weigh_sets(_, _, _, _, _)
weigh_sets(nw_data, s, category_data, amounts, done) ==
    IF s > Len(nw_data) THEN [amounts |-> amounts, cfs |-> done]
    ELSE Only({weigh_sets(nw_data, s + 1, category_data, r.amounts, Append(done, r.cfs)) :
                  r \in {get_all_cfs(nw_data[s].nw_data, category_data,
                                     [amounts |-> amounts, cfs |-> <<>>])}})

\* The factors a list of references shows when the function has returned.
Dereference(references, category_data, amounts) ==
    [i \in 1..Len(references) |->
        [category_data[references[i][1]].cf_data[references[i][2]]
            EXCEPT !.amount = amounts[references[i][1]][references[i][2]]]]

\* Lines 145-183. Each result is evaluated once and named: m is what
\* read_metadata returns, sections the state when the loop of line 152 ends,
\* weighted the amounts and the lists of the sets after the loop of line 174.
read_method_data_set(data, i, filepath) ==
    Only({
        IF m.raised THEN Raises
        ELSE IF "Name" \notin DOMAIN m.metadata \/ "Comment" \notin DOMAIN m.metadata
        THEN Raises
        ELSE Only({
            IF sections.raised THEN Raises
            ELSE IF sections.nw_data # <<>> /\ "Weighting unit" \notin DOMAIN m.metadata
            THEN Raises
            ELSE
    LET category_data == sections.category_data
        nw_data == sections.nw_data
        parsed == [c \in 1..Len(category_data) |->
                      [k \in 1..Len(category_data[c].cf_data) |->
                          category_data[c].cf_data[k].amount]]
        head(name) == [description |-> m.metadata["Comment"],
                       name |-> <<m.metadata["Name"], name>>,
                       filename |-> filepath]
    IN  Only({
            [raised |-> FALSE, index |-> sections.index,
             category_data |-> category_data, nw_data |-> nw_data,
             completed_data |->
                [c \in 1..Len(category_data) |->
                    head(category_data[c].name) @@
                    [unit |-> category_data[c].unit,
                     data |-> Dereference(AllReferences(category_data, c), category_data,
                                          weighted.amounts)]]
                \o [s \in 1..Len(nw_data) |->
                    head(nw_data[s].name) @@
                    [unit |-> m.metadata["Weighting unit"],
                     data |-> Dereference(weighted.cfs[s], category_data,
                                          weighted.amounts)]]] :
            weighted \in {weigh_sets(nw_data, 1, category_data, parsed, <<>>)}}) :
            sections \in {read_sections(data, m.index, <<>>, <<>>)}}) :
        m \in {read_metadata(data, i, <<>>)}})

(***************************************************************************)
(* The records the model draws its inputs from. An exchange is eligible    *)
(* or not by its type and by an `input` left by an earlier run; its name   *)
(* differs from the candidates' names in case and white space only. A      *)
(* candidate of an external pool may lack `database`, a dataset of the     *)
(* collection (a candidate of internal linking) may lack `code`.           *)
(***************************************************************************)
EarlierInput == <<"B", "X">>

Exchanges ==
    { [type |-> "technosphere", name |-> "Steel"],
      [type |-> "biosphere", name |-> "Steel"],
      [type |-> "technosphere", name |-> "Iron"],
      [type |-> "technosphere", name |-> "Steel", input |-> EarlierInput] }

RECURSIVE TotalExchanges(_)
TotalExchanges(db) ==
    IF db = <<>> THEN 0
    ELSE Len(Get(Head(db), "exchanges", <<>>)) + TotalExchanges(Tail(db))

\* The datasets of a collection have `code` or lack it.
Collections ==
    {db \in SeqsUpTo({SetItem(h, "exchanges", e) :
                         h \in { [database |-> "A", code |-> "c1", name |-> "steel"],
                                 [database |-> "A", name |-> "steel"] },
                         e \in SeqsUpTo(Exchanges, MaxExchanges)},
                     MaxDatasets) :
        TotalExchanges(db) <= MaxExchanges}

\* A pool lists each of its records once; one candidate lacks `database`.
Pools ==
    {other \in SeqsUpTo({ [database |-> "B", code |-> "X", name |-> "steel"],
                          [database |-> "B", code |-> "Y", name |-> " STEEL "],
                          [database |-> "B", code |-> "Z", name |-> "iron"],
                          [code |-> "W", name |-> "steel"] },
                        MaxOther) :
        \A i, j \in 1..Len(other) : other[i] = other[j] => i = j}
FieldLists == {<<"name">>}
Kinds == {{}, {"technosphere"}}

(***************************************************************************)
(* The elements the extractor reads: a point amount, an optional formula   *)
(* and an optional uncertainty child with an optional pedigree matrix and  *)
(* one distribution.                                                       *)
(***************************************************************************)
Amounts == {0, 7}
Means == {-1, 2}
Scales == -1..MaxScale
Variances == {0, 1}
BoundValues == {-1, 0, 3, 5, 10, 20}

Optional(S, key) == {<<>>} \cup {key :> v : v \in S}

Distributions ==
    {("lognormal" :> (x @@ v)) :
        x \in {[mu |-> m, varianceWithPedigreeUncertainty |-> sc] : m \in Means, sc \in Scales},
        v \in Optional(Variances, "variance")}
    \cup {("normal" :> (x @@ v)) :
        x \in {[meanValue |-> m, varianceWithPedigreeUncertainty |-> sc] :
                  m \in Means, sc \in Scales},
        v \in Optional(Variances, "variance")}
    \cup {("triangular" :> [minValue |-> lo, mostLikelyValue |-> ml, maxValue |-> hi]) :
        lo \in BoundValues, ml \in BoundValues, hi \in BoundValues}
    \cup {("uniform" :> [minValue |-> lo, maxValue |-> hi]) :
        lo \in BoundValues, hi \in BoundValues}
    \cup {("undefined" :> <<>>), ("beta" :> <<>>)}

Elements ==
    {[amount |-> a] @@ f @@ u :
        a \in Amounts,
        f \in Optional({"2 * x"}, "formula"),
        u \in {<<>>} \cup {("uncertainty" :> (d @@ pm)) :
                  d \in Distributions,
                  pm \in Optional({[reliability |-> 1, completeness |-> 2,
                                    temporalCorrelation |-> 3, geographicalCorrelation |-> 4,
                                    furtherTechnologyCorrelation |-> 5]},
                                  "pedigreeMatrix")}}

\* The exchange elements: a tag, the id attribute of the tag, a name, an
\* optional output group, activity link, unit and comment, and an uncertainty
\* child that is absent, valid, invalid or unknown.
ExchangeElements ==
    {[tag |-> t, name |-> "steel", amount |-> 7]
        @@ (IF t = ElementaryTag THEN ("elementaryExchangeId" :> "flow-1")
                                 ELSE ("intermediateExchangeId" :> "flow-1"))
        @@ g @@ a @@ un @@ c @@ u :
        t \in {IntermediateTag, ElementaryTag,
               "{http://www.EcoInvent.org/EcoSpold02}parameter"},
        g \in Optional({"0", "2", "3", "4", "5"}, "outputGroup"),
        a \in Optional({"activity-1"}, "activityLinkId"),
        un \in Optional({"kg"}, "unitName"),
        c \in Optional({"measured"}, "comment"),
        u \in { <<>>,
                "uncertainty" :>
                    ("lognormal" :> [mu |-> 2, varianceWithPedigreeUncertainty |-> 1]),
                "uncertainty" :>
                    ("lognormal" :> [mu |-> 2, varianceWithPedigreeUncertainty |-> 30]),
                "uncertainty" :> ("beta" :> <<>>) }}

NoElement == [amount |-> 0]
NotScanning == [pc |-> "none"]
NotExtracted == [done |-> FALSE, raised |-> FALSE, data |-> <<>>]

(***************************************************************************)
(* The state machine: one call of link_iterable_by_fields on a collection, *)
(* against an external pool or in internal mode. The collection on entry   *)
(* may hold exchanges that an earlier run has linked.                      *)
(***************************************************************************)
Init ==
    /\ unlinked \in Collections
    /\ before = unlinked
    /\ call = [op |-> "none"]
    /\ outcome = [raised |-> FALSE, message |-> NoMessage]
    /\ element = NoElement
    /\ extracted = NotExtracted
    /\ lines = <<>>
    /\ line_index = 0
    /\ scan = NotScanning

Link(other, fields, kind, internal, relink) ==
    LET r == link_iterable_by_fields(unlinked, other, fields, kind, internal, relink)
    IN  /\ call.op = "none"
        /\ unlinked' = r.db
        /\ before' = unlinked
        /\ call' = [op |-> "link_iterable_by_fields", other |-> other, fields |-> fields,
                    kind |-> kind, internal |-> internal, relink |-> relink]
        /\ outcome' = [raised |-> r.raised, message |-> r.message]
        /\ UNCHANGED <<extraction, scanning>>

Next ==
    \/ \E other \in Pools, fields \in FieldLists, kind \in Kinds, relink \in BOOLEAN :
          Link(other, fields, kind, FALSE, relink)
    \/ \E fields \in FieldLists, kind \in Kinds, relink \in BOOLEAN :
          Link(<<>>, fields, kind, TRUE, relink)

Spec == Init /\ [][Next]_vars

(***************************************************************************)
(* The extraction of one element by the ecospold2 extractor.               *)
(***************************************************************************)
InitExtraction ==
    /\ element \in Elements
    /\ extracted = NotExtracted
    /\ lines = <<>>
    /\ line_index = 0
    /\ scan = NotScanning
    /\ unlinked = <<>>
    /\ before = <<>>
    /\ call = [op |-> "none"]
    /\ outcome = [raised |-> FALSE, message |-> NoMessage]

ExtractUncertaintyDict ==
    LET r == extract_uncertainty_dict(element)
    IN  /\ ~extracted.done
        /\ extracted' = [done |-> TRUE, raised |-> r.raised, data |-> r.data]
        /\ UNCHANGED <<element, linking, scanning>>

SpecExtraction == InitExtraction /\ [][ExtractUncertaintyDict]_vars

(***************************************************************************)
(* The extraction of one exchange element by extract_exchange.             *)
(***************************************************************************)
InitExchange ==
    /\ element \in ExchangeElements
    /\ extracted = NotExtracted
    /\ lines = <<>>
    /\ line_index = 0
    /\ scan = NotScanning
    /\ unlinked = <<>>
    /\ before = <<>>
    /\ call = [op |-> "none"]
    /\ outcome = [raised |-> FALSE, message |-> NoMessage]

ExtractExchange ==
    LET r == extract_exchange(element)
    IN  /\ ~extracted.done
        /\ extracted' = [done |-> TRUE, raised |-> r.raised, data |-> r.data]
        /\ UNCHANGED <<element, linking, scanning>>

SpecExchange == InitExchange /\ [][ExtractExchange]_vars

(***************************************************************************)
(* A pipeline: strategies applied in succession to one working set, with   *)
(* no rollback; a strategy that raises ends the pipeline. The working set  *)
(* is made of datasets as an extractor leaves them: without name, unit     *)
(* and reference product; with name, unit, production amount, a code, an   *)
(* empty reference product and a dict of parameters; or with a reference   *)
(* product; and with no, one or two production exchanges. Codes are        *)
(* sequences (see set_code_by_activity_hash).                              *)
(***************************************************************************)
Product == [type |-> "production", name |-> "Steel", amount |-> 8, unit |-> "kg"]
ProductWithReference ==
    [type |-> "production", name |-> "Steel", amount |-> 8] @@ ("reference product" :> "Iron")
Unlinked ==
    [type |-> "technosphere", name |-> "Iron", amount |-> 8, unit |-> "KG",
     categories |-> [tuple |-> FALSE, items |-> <<"air">>]]

NoHead == <<>>
FullHead ==
    [name |-> "steel", unit |-> "KG", code |-> <<"c1">>,
     parameters |-> [kind |-> "dict", items |-> << <<"p1", [amount |-> 1, unit |-> "kg"]>> >>]]
        @@ ("production amount" :> 1) @@ ("reference product" :> "")

\* One dataset holds an exchange that an earlier run has linked, one has a
\* reference product only.
WorkingSets ==
    SeqsUpTo(
        { SetItem(NoHead, "exchanges", <<Product>>),
          SetItem(NoHead, "exchanges", <<ProductWithReference, Unlinked>>),
          SetItem(NoHead, "exchanges",
                  <<Unlinked, [type |-> "technosphere", name |-> "Steel", amount |-> 8,
                               input |-> <<"B", <<"X">>>>]>>),
          SetItem(FullHead, "exchanges", <<Product, Unlinked>>),
          SetItem(FullHead, "exchanges", <<Product, ProductWithReference>>),
          SetItem(FullHead, "exchanges", <<ProductWithReference, Unlinked>>),
          SetItem([name |-> "Steel"] @@ ("reference product" :> "Iron"),
                  "exchanges", <<Product>>) },
        MaxWorkingSet)

\* The arguments the strategies are called with.
DatabaseName == "A"
SplitFilter == [name |-> "Iron"]
SplitArguments ==
    { <<<<>>, NoFactors>>,
      <<<<[location |-> "GLO"]>>, Factors(<<1>>)>>,
      <<<<[location |-> "GLO"], [location |-> "RER"]>>, NoFactors>>,
      <<<<[location |-> "GLO"], [location |-> "RER"]>>, Factors(<<1>>)>> }

InitPipeline ==
    /\ unlinked \in WorkingSets
    /\ before = unlinked
    /\ call = [op |-> "none", n |-> 0, prev |-> "none", repeat |-> FALSE]
    /\ outcome = [raised |-> FALSE, message |-> NoMessage]
    /\ element = NoElement
    /\ extracted = NotExtracted
    /\ lines = <<>>
    /\ line_index = 0
    /\ scan = NotScanning

\* One strategy of the pipeline has run, with result r. The call records its
\* arguments, its place in the pipeline, the strategy that ran before it and
\* whether it repeats the call before it.
Applied(op, arguments, r) ==
    /\ call.n < MaxCalls
    /\ ~outcome.raised
    /\ unlinked' = r.db
    /\ before' = unlinked
    /\ call' = arguments @@
                [op |-> op, n |-> call.n + 1, prev |-> call.op,
                 repeat |-> call.op = op /\ \A k \in DOMAIN arguments : call[k] = arguments[k]]
    /\ outcome' = [raised |-> r.raised,
                   message |-> IF "message" \in DOMAIN r THEN r.message ELSE NoMessage]
    /\ UNCHANGED <<extraction, scanning>>

AddDatabaseName ==
    Applied("add_database_name", [name |-> DatabaseName],
            add_database_name(unlinked, DatabaseName))

SetCodeByActivityHash ==
    \E overwrite \in BOOLEAN :
        Applied("set_code_by_activity_hash", [overwrite |-> overwrite],
                set_code_by_activity_hash(unlinked, overwrite))

AssignOnlyProductAsProduction ==
    Applied("assign_only_product_as_production", <<>>,
            assign_only_product_as_production(unlinked))

DropUnlinked == Applied("drop_unlinked", <<>>, drop_unlinked(unlinked))

NormalizeUnits == Applied("normalize_units", <<>>, normalize_units(unlinked))

TupleizeCategories == Applied("tupleize_categories", <<>>, tupleize_categories(unlinked))

ConvertActivityParametersToList ==
    Applied("convert_activity_parameters_to_list", <<>>,
            convert_activity_parameters_to_list(unlinked))

SplitExchanges ==
    \E a \in SplitArguments :
        Applied("split_exchanges",
                [filter_params |-> SplitFilter, changed_attributes |-> a[1],
                 allocation_factors |-> a[2]],
                split_exchanges(unlinked, SplitFilter, a[1], a[2]))

LinkIterableByFields ==
    \E internal \in BOOLEAN :
        LET other == IF internal THEN <<>>
                     ELSE << [database |-> "B", code |-> <<"X">>, name |-> "steel"],
                             [database |-> "B", code |-> <<"Z">>, name |-> "iron"],
                             [database |-> "B", code |-> <<"Y">>, name |-> "Iron"] >>
        IN  Applied("link_iterable_by_fields",
                    [other |-> other, fields |-> <<"name">>, kind |-> {},
                     internal |-> internal, relink |-> FALSE],
                    link_iterable_by_fields(unlinked, other, <<"name">>, {}, internal, FALSE))

NextPipeline ==
    \/ AddDatabaseName
    \/ SetCodeByActivityHash
    \/ AssignOnlyProductAsProduction
    \/ DropUnlinked
    \/ NormalizeUnits
    \/ TupleizeCategories
    \/ ConvertActivityParametersToList
    \/ SplitExchanges
    \/ LinkIterableByFields

SpecPipeline == InitPipeline /\ [][NextPipeline]_vars

(***************************************************************************)
(* Linking calls in succession: a record set on which add_database_name,   *)
(* set_code_by_activity_hash and link_iterable_by_fields are called in     *)
(* any order, the linking against the set itself or against an external    *)
(* pool. A caller may catch the StrategyError of a linking call and go     *)
(* on, so a call may follow a call that raised. The datasets lack          *)
(* `database`, and some lack `code`, until the two strategies have run;    *)
(* two of them share a fingerprint. The call records the pool of the       *)
(* latest linking call before it and whether the two strategies have run.  *)
(***************************************************************************)
WantsIron == [type |-> "technosphere", name |-> "Iron"]
WantsSteel == [type |-> "biosphere", name |-> "Steel"]

SteelMaker == [name |-> "steel", code |-> <<"c1">>, exchanges |-> <<WantsIron, WantsSteel>>]
IronMaker == [name |-> "iron", exchanges |-> <<WantsSteel>>]
IronTrader == [name |-> "Iron", database |-> "A", code |-> <<"c2">>, exchanges |-> <<WantsIron>>]

ExternalSteel == [database |-> "B", code |-> <<"X">>, name |-> "steel"]
ExternalSteelAgain == [database |-> "B", code |-> <<"Y">>, name |-> " STEEL "]
ExternalIron == [database |-> "B", code |-> <<"Z">>, name |-> "iron"]

InitLinking ==
    /\ unlinked \in
          { <<SteelMaker>>, <<IronMaker>>, <<IronTrader>>, <<SteelMaker, IronMaker>>,
            <<IronTrader, IronMaker>>, <<IronTrader, SteelMaker>>, <<IronMaker, IronTrader>> }
    /\ before = unlinked
    /\ call = [op |-> "none", n |-> 0, earlier |-> [used |-> FALSE, pool |-> <<>>],
               named |-> FALSE, coded |-> FALSE]
    /\ outcome = [raised |-> FALSE, message |-> NoMessage]
    /\ element = NoElement
    /\ extracted = NotExtracted
    /\ lines = <<>>
    /\ line_index = 0
    /\ scan = NotScanning

\* One call on the record set has ended, with result r.
Called(op, arguments, r) ==
    /\ call.n < MaxSteps
    /\ unlinked' = r.db
    /\ before' = unlinked
    /\ call' = arguments @@
                [op |-> op, n |-> call.n + 1,
                 earlier |-> IF call.op = "link_iterable_by_fields"
                             THEN [used |-> TRUE,
                                   pool |-> IF call.internal THEN before ELSE call.other]
                             ELSE call.earlier,
                 named |-> call.named \/ op = "add_database_name",
                 coded |-> call.coded \/ op = "set_code_by_activity_hash"]
    /\ outcome' = [raised |-> r.raised,
                   message |-> IF "message" \in DOMAIN r THEN r.message ELSE NoMessage]
    /\ UNCHANGED <<extraction, scanning>>

NameRecordSet ==
    Called("add_database_name", [name |-> DatabaseName],
           add_database_name(unlinked, DatabaseName))

CodeRecordSet ==
    \E overwrite \in BOOLEAN :
        Called("set_code_by_activity_hash", [overwrite |-> overwrite],
               set_code_by_activity_hash(unlinked, overwrite))

LinkInternally ==
    \E relink \in BOOLEAN :
        Called("link_iterable_by_fields",
               [other |-> <<>>, fields |-> <<"name">>, kind |-> {},
                internal |-> TRUE, relink |-> relink],
               link_iterable_by_fields(unlinked, <<>>, <<"name">>, {}, TRUE, relink))

\* The last candidate of the third pool lacks database.
LinkExternally ==
    \E other \in { <<ExternalSteel, ExternalIron>>,
                   <<ExternalSteel, ExternalSteelAgain, ExternalIron>>,
                   <<ExternalSteel, ExternalSteelAgain, [code |-> <<"Z">>, name |-> "iron"]>> },
       kind \in Kinds :
        Called("link_iterable_by_fields",
               [other |-> other, fields |-> <<"name">>, kind |-> kind,
                internal |-> FALSE, relink |-> FALSE],
               link_iterable_by_fields(unlinked, other, <<"name">>, kind, FALSE, FALSE))

NextLinking ==
    \/ NameRecordSet
    \/ CodeRecordSet
    \/ LinkInternally
    \/ LinkExternally

SpecLinking == InitLinking /\ [][NextLinking]_vars

(***************************************************************************)
(* One call of link_technosphere_by_activity_hash on a collection, with    *)
(* no database name, the name of a database of the registry or a name      *)
(* that the registry does not hold. The exchanges are of the three         *)
(* technosphere types or biosphere exchanges, and one has been linked by   *)
(* an earlier run. The first dataset may lack `code`; a second dataset,    *)
(* when there is one, is a candidate of internal linking.                  *)
(***************************************************************************)
InitTechnosphere ==
    /\ unlinked \in
          {<<SetItem(h, "exchanges", e)>> \o rest :
              h \in { [database |-> "A", code |-> "c1", name |-> "steel", type |-> "process"],
                      [database |-> "A", name |-> "steel"] },
              e \in SeqsUpTo(
                      {[type |-> t, name |-> n] :
                          t \in {"technosphere", "substitution", "production", "biosphere"},
                          n \in {"Steel", "Iron"}}
                      \cup {[type |-> "technosphere", name |-> "Steel", input |-> EarlierInput]},
                      MaxExchanges),
              rest \in {<<>>, <<[database |-> "A", code |-> "c2", name |-> "iron",
                                 type |-> "product"]>>}}
    /\ before = unlinked
    /\ call = [op |-> "none"]
    /\ outcome = [raised |-> FALSE, message |-> NoMessage]
    /\ element = NoElement
    /\ extracted = NotExtracted
    /\ lines = <<>>
    /\ line_index = 0
    /\ scan = NotScanning

LinkTechnosphereByActivityHash ==
    \E external_db_name \in {[given |-> FALSE], DatabaseNamed("B"), DatabaseNamed("C"),
                              DatabaseNamed("D")},
       fields \in FieldLists :
        LET r == link_technosphere_by_activity_hash(unlinked, external_db_name, fields)
        IN  /\ call.op = "none"
            /\ unlinked' = r.db
            /\ before' = unlinked
            /\ call' = [op |-> "link_technosphere_by_activity_hash",
                        external_db_name |-> external_db_name, fields |-> fields]
            /\ outcome' = [raised |-> r.raised, message |-> r.message]
            /\ UNCHANGED <<extraction, scanning>>

SpecTechnosphere == InitTechnosphere /\ [][LinkTechnosphereByActivityHash]_vars

(***************************************************************************)
(* One call of split_exchanges on a collection whose exchanges match the   *)
(* filter or not, are linked or not, and carry a lognormal uncertainty or  *)
(* none. A second dataset, when there is one, holds a matching exchange.   *)
(***************************************************************************)
Lognormal == ("uncertainty type" :> LognormalUncertainty) @@ [loc |-> 2, scale |-> 1]

InitSplit ==
    /\ unlinked \in
          {<<[name |-> "steel", exchanges |-> e]>> \o rest :
              e \in SeqsUpTo(
                      { [type |-> "technosphere", name |-> "Iron", amount |-> 8],
                        [type |-> "technosphere", name |-> "Iron", amount |-> 8] @@ Lognormal,
                        [type |-> "technosphere", name |-> "Iron", amount |-> 8,
                         input |-> EarlierInput] @@ Lognormal,
                        [type |-> "technosphere", name |-> "Steel", amount |-> 8] @@ Lognormal },
                      MaxExchanges),
              rest \in {<<>>, <<[name |-> "iron",
                                 exchanges |-> <<[type |-> "technosphere", name |-> "Iron",
                                                  amount |-> 8]>>]>>}}
    /\ before = unlinked
    /\ call = [op |-> "none"]
    /\ outcome = [raised |-> FALSE, message |-> NoMessage]
    /\ element = NoElement
    /\ extracted = NotExtracted
    /\ lines = <<>>
    /\ line_index = 0
    /\ scan = NotScanning

SplitOnce ==
    \E a \in SplitArguments :
        LET r == split_exchanges(unlinked, SplitFilter, a[1], a[2])
        IN  /\ call.op = "none"
            /\ unlinked' = r.db
            /\ before' = unlinked
            /\ call' = [op |-> "split_exchanges", filter_params |-> SplitFilter,
                        changed_attributes |-> a[1], allocation_factors |-> a[2]]
            /\ outcome' = [raised |-> r.raised, message |-> NoMessage]
            /\ UNCHANGED <<extraction, scanning>>

SpecSplit == InitSplit /\ [][SplitOnce]_vars

(***************************************************************************)
(* SimaProLCIACSVExtractor.extract from line 58 on, on a file whose first  *)
(* row names SimaPro. The files are the header followed by arbitrary rows  *)
(* out of a few, and files with a method of two impact categories and of   *)
(* Normalization-Weighting sets, alone, after a section that is skipped,   *)
(* followed by a second method or by a section that has no End.            *)
(* get_next_method_index and skip_to_section_end are followed iteration    *)
(* by iteration, read_method_data_set is one step.                         *)
(***************************************************************************)
Header == <<"SimaPro 8.5", "methods">>

\* An impact category with one Substances row for each amount.
CategoryBlock(name, amounts) ==
    << <<"Impact category">>, <<name, "kg CO2 eq">>, <<>>, <<"Substances">> >>
        \o [i \in 1..Len(amounts) |->
               <<"Air", "(unspecified)", "CO2", "000124-38-9", amounts[i], "kg">>]
        \o << <<>> >>

\* A method with the categories Climate and Ozone and with one
\* Normalization-Weighting set for each element of sets, its Weighting rows.
MethodBlock(sets) ==
    << <<"Method">>, <<>>, <<"Name">>, <<"ReCiPe">>, <<>>, <<"Comment">>, <<"midpoint">>, <<>>,
       <<"Weighting unit">>, <<"Pt">>, <<>> >>
        \o CategoryBlock("Climate", <<"1", "5">>) \o CategoryBlock("Ozone", <<"2">>)
        \o Concat([s \in 1..Len(sets) |->
               << <<"Normalization-Weighting set">>,
                  << <<"World", "Europe", "Asia", "Africa">>[s] >>, <<>>, <<"Weighting">> >>
                   \o sets[s] \o << <<>> >>])
        \o << <<"End">>, <<>> >>

\* Arbitrary rows after the header; a method alone; a method after a Units
\* section that holds a Method row and ends with "End ", followed by a
\* Quantities section without End; two methods. A set weighs Climate by 2 or
\* 3 and Ozone by 0 or 3.
Files ==
    {<<Header>> \o rows :
        rows \in SeqsUpTo({<<>>, <<"Method">>, <<"Units">>, <<"End">>, <<"Name">>}, MaxLines)}
    \cup UNION {{ <<Header>> \o MethodBlock(sets),
                  <<Header>>
                      \o << <<"Units">>, <<"kg", "Mass">>, <<"Method">>, <<"End ">>, <<>> >>
                      \o MethodBlock(sets)
                      \o << <<"Quantities">>, <<"Mass", "Yes">>, <<"Method">> >> } :
                sets \in SeqsUpTo({<< <<"Climate", w1>>, <<"Ozone", w2>> >> :
                                      w1 \in {"2", "3"}, w2 \in {"0", "3"}}, MaxSets)}
    \cup { <<Header>> \o MethodBlock(<<>>) \o MethodBlock(<< << <<"Climate", "2">> >> >>) }

InitSimaPro ==
    /\ lines \in Files
    /\ line_index = 0
    /\ scan = [pc |-> "get_next_method_index", start |-> 0, datasets |-> <<>>,
               methods |-> <<>>]
    /\ unlinked = <<>>
    /\ before = <<>>
    /\ call = [op |-> "none"]
    /\ outcome = [raised |-> FALSE, message |-> NoMessage]
    /\ element = NoElement
    /\ extracted = NotExtracted

\* Mutant: an empty row is taken for the End row of a section.
FirstCell_EmptyEnds(row) == IF row # <<>> THEN row[1] ELSE "End"

\* Line 88: data[index][0] if data[index] else "".
FirstCell(row) == IF row # <<>> THEN row[1] ELSE ""

\* get_next_method_index, lines 77-84: one iteration on a row that neither
\* opens a section to skip nor is a Method row.
NextLine ==
    /\ scan.pc = "get_next_method_index"
    /\ InRange(lines, line_index)
    /\ ~(RowAt(lines, line_index) # <<>>
         /\ RowAt(lines, line_index)[1] \in SKIPPABLE_SECTIONS \cup {"Method"})
    /\ line_index' = line_index + 1
    /\ UNCHANGED <<lines, scan, linking, extraction>>

\* Lines 77-78: the row opens a section to skip; skip_to_section_end is called.
EnterSection ==
    /\ scan.pc = "get_next_method_index"
    /\ InRange(lines, line_index)
    /\ RowAt(lines, line_index) # <<>>
    /\ RowAt(lines, line_index)[1] \in SKIPPABLE_SECTIONS
    /\ scan' = [scan EXCEPT !.pc = "skip_to_section_end"]
    /\ UNCHANGED <<lines, line_index, linking, extraction>>

\* Lines 88-89: one iteration of skip_to_section_end.
SectionLine ==
    /\ scan.pc = "skip_to_section_end"
    /\ InRange(lines, line_index)
    /\ strip(FirstCell(RowAt(lines, line_index))) # "End"
    /\ line_index' = line_index + 1
    /\ UNCHANGED <<lines, scan, linking, extraction>>

\* Lines 88, 90 and 84: skip_to_section_end returns the index of the End row
\* and get_next_method_index goes to the row after it.
SectionEnd ==
    /\ scan.pc = "skip_to_section_end"
    /\ InRange(lines, line_index)
    /\ strip(FirstCell(RowAt(lines, line_index))) = "End"
    /\ line_index' = line_index + 1
    /\ scan' = [scan EXCEPT !.pc = "get_next_method_index"]
    /\ UNCHANGED <<lines, linking, extraction>>

\* Lines 79-80: the index after the Method row is returned to extract.
FoundMethod ==
    /\ scan.pc = "get_next_method_index"
    /\ InRange(lines, line_index)
    /\ RowAt(lines, line_index) # <<>>
    /\ RowAt(lines, line_index)[1] = "Method"
    /\ line_index' = line_index + 1
    /\ scan' = [scan EXCEPT !.pc = "read_method_data_set"]
    /\ UNCHANGED <<lines, linking, extraction>>

\* Lines 81-83 and 67-71: the rows have run out, in get_next_method_index or
\* in skip_to_section_end; EndOfDatasets ends the loop of extract.
EndOfDatasets ==
    /\ scan.pc \in {"get_next_method_index", "skip_to_section_end"}
    /\ ~InRange(lines, line_index)
    /\ scan' = [scan EXCEPT !.pc = "returned"]
    /\ UNCHANGED <<lines, line_index, linking, extraction>>

\* Lines 64-66: read_method_data_set, then the next call of
\* get_next_method_index from the index it returned.
ReadMethodDataSet ==
    /\ scan.pc = "read_method_data_set"
    /\ \E r \in {read_method_data_set(lines, line_index, "methods.csv")} :
           IF r.raised
           THEN /\ scan' = [scan EXCEPT !.pc = "raised"]
                /\ UNCHANGED line_index
           ELSE /\ scan' = [scan EXCEPT
                              !.pc = "get_next_method_index",
                              !.start = r.index,
                              !.datasets = @ \o r.completed_data,
                              !.methods = Append(@, [category_data |-> r.category_data,
                                                     nw_data |-> r.nw_data,
                                                     completed_data |-> r.completed_data])]
                /\ line_index' = r.index
    /\ UNCHANGED <<lines, linking, extraction>>

NextSimaPro ==
    \/ NextLine
    \/ EnterSection
    \/ SectionLine
    \/ SectionEnd
    \/ FoundMethod
    \/ EndOfDatasets
    \/ ReadMethodDataSet

SpecSimaPro == InitSimaPro /\ [][NextSimaPro]_vars

\* The interpreter goes on as long as extract has not ended.
SpecSimaProFair == SpecSimaPro /\ WF_vars(NextSimaPro)

(***************************************************************************)
(* Vocabulary of the claims about a call of link_iterable_by_fields.       *)
(* Everything here is stated on the collection before and after the call   *)
(* and on the arguments of the call, not on the index the call builds.     *)
(***************************************************************************)
Linked == call.op = "link_iterable_by_fields"
Returned == Linked /\ ~outcome.raised
MissingIdentityRaised ==
    Linked /\ outcome.raised /\ outcome.message.text = MissingIdentityMessage.text
AmbiguityRaised ==
    Linked /\ outcome.raised /\ outcome.message.text # MissingIdentityMessage.text

\* The candidate pool of the call: the collection itself in internal mode.
Pool == IF call.internal THEN before ELSE call.other

\* The positions <<dataset, exchange>> of the collection, in iteration order.
Positions ==
    UNION {{<<d, e>> : e \in 1..Len(Get(before[d], "exchanges", <<>>))} :
              d \in 1..Len(before)}
Precedes(p, q) == p[1] < q[1] \/ (p[1] = q[1] /\ p[2] < q[2])
ExcBefore(p) == before[p[1]]["exchanges"][p[2]]
ExcAfter(p) == unlinked[p[1]]["exchanges"][p[2]]

HasInput(x) == "input" \in DOMAIN x /\ x["input"] # None
Eligible(x) ==
    /\ call.kind # {} => ("type" \in DOMAIN x /\ x["type"] \in call.kind)
    /\ ~call.relink => ~HasInput(x)

\* The candidates of the pool with the fingerprint of x, by index in the pool.
Matches(x) ==
    {i \in 1..Len(Pool) :
        activity_hash(Pool[i], call.fields) = activity_hash(x, call.fields)}
FirstMatch(x) == CHOOSE i \in Matches(x) : \A j \in Matches(x) : i <= j
Identity(ds) == <<ds["database"], ds["code"]>>
HasIdentity(ds) == "database" \in DOMAIN ds /\ "code" \in DOMAIN ds

\* The first eligible exchange, in iteration order, that matches several candidates.
Offending(p) ==
    /\ p \in Positions
    /\ Eligible(ExcBefore(p)) /\ Cardinality(Matches(ExcBefore(p))) >= 2
    /\ \A q \in Positions :
          Precedes(q, p) =>
              ~(Eligible(ExcBefore(q)) /\ Cardinality(Matches(ExcBefore(q))) >= 2)

SameShape ==
    /\ Len(unlinked) = Len(before)
    /\ \A d \in 1..Len(before) :
          /\ DOMAIN unlinked[d] = DOMAIN before[d]
          /\ \A k \in DOMAIN before[d] \ {"exchanges"} : unlinked[d][k] = before[d][k]
          /\ "exchanges" \in DOMAIN before[d] =>
                /\ Len(unlinked[d]["exchanges"]) = Len(before[d]["exchanges"])
                /\ \A e \in 1..Len(before[d]["exchanges"]) :
                      LET x == before[d]["exchanges"][e]
                          y == unlinked[d]["exchanges"][e]
                      IN  /\ DOMAIN x \subseteq DOMAIN y
                          /\ DOMAIN y \subseteq DOMAIN x \cup {"input"}
                          /\ \A k \in DOMAIN x \ {"input"} : y[k] = x[k]

(***************************************************************************)
(* C1. Linking correctness: when a call of link_iterable_by_fields         *)
(* returns, every exchange that passed the filter and whose fingerprint    *)
(* is the fingerprint of exactly one candidate has `input` equal to that   *)
(* candidate's (database, code) pair.                                      *)
(***************************************************************************)
C1_LinkingCorrectness ==
    Returned =>
        \A p \in Positions :
            (Eligible(ExcBefore(p)) /\ Cardinality(Matches(ExcBefore(p))) = 1) =>
                /\ "input" \in DOMAIN ExcAfter(p)
                /\ ExcAfter(p)["input"] = Identity(Pool[FirstMatch(ExcBefore(p))])

C1_Witness ==
    /\ Returned
    /\ \E p \in Positions :
          /\ Eligible(ExcBefore(p)) /\ Cardinality(Matches(ExcBefore(p))) = 1
          /\ ~HasInput(ExcBefore(p))
          /\ Len(Pool) >= 2
          /\ ExcAfter(p)["input"] = <<"B", "Y">>

(***************************************************************************)
(* C2 as claimed. Ambiguity detection: when two candidates share a         *)
(* fingerprint and an eligible exchange of the batch matches it, the call  *)
(* raises StrategyError and no exchange of the whole batch has had         *)
(* `input` set by the call, wherever the offending exchange is.            *)
(***************************************************************************)
C2_NothingLinkedOnAmbiguity ==
    (Linked /\ (\A i \in 1..Len(Pool) : HasIdentity(Pool[i]))
            /\ \E p \in Positions : Offending(p)) =>
        /\ outcome.raised
        /\ \A q \in Positions : ExcAfter(q) = ExcBefore(q)

(***************************************************************************)
(* C2 as amended. When two candidates share a fingerprint and an eligible  *)
(* exchange matches it, the call raises StrategyError (the ambiguity       *)
(* error whenever every candidate has `database` and `code`), and the      *)
(* first such exchange and every exchange after it in iteration order are  *)
(* as they were before the call; exchanges before it may have been linked. *)
(***************************************************************************)
C2_AmbiguityStopsTheCall ==
    Linked =>
        \A p \in Positions :
            Offending(p) =>
                /\ outcome.raised
                /\ (\A i \in 1..Len(Pool) : HasIdentity(Pool[i])) => AmbiguityRaised
                /\ \A q \in Positions : ~Precedes(q, p) => ExcAfter(q) = ExcBefore(q)

C2_Witness ==
    /\ AmbiguityRaised
    /\ \E p, q \in Positions :
          /\ Offending(p) /\ Precedes(q, p)
          /\ "input" \in DOMAIN ExcAfter(q) /\ ~HasInput(ExcBefore(q))
          /\ ExcAfter(p) = ExcBefore(p)

(***************************************************************************)
(* C3 as claimed. Missing identity: whenever the candidate pool contains   *)
(* a record without `database` or without `code`, at any position, the     *)
(* call fails with the missing-identity error.                             *)
(***************************************************************************)
C3_MissingIdentityAlwaysRaised ==
    (Linked /\ \E i \in 1..Len(Pool) : ~HasIdentity(Pool[i])) => MissingIdentityRaised

(***************************************************************************)
(* C4 as claimed. The ambiguity error lists all the candidates that share  *)
(* the colliding fingerprint, the first-seen one included: n entries for   *)
(* n colliding candidates.                                                 *)
(***************************************************************************)
C4_AllCollidingCandidatesReported ==
    (AmbiguityRaised /\ \A i \in 1..Len(Pool) : HasIdentity(Pool[i])) =>
        \A p \in Positions :
            Offending(p) =>
                Len(outcome.message.targets) = Cardinality(Matches(ExcBefore(p)))

(***************************************************************************)
(* C4 as amended. The ambiguity error shows the offending exchange and     *)
(* the candidates that share its fingerprint except the first-seen one,    *)
(* in pool order: n - 1 entries for n colliding candidates.                *)
(***************************************************************************)
RECURSIVE Later(_, _)
Later(pool, x) ==
    \* the candidates with the fingerprint of x after the first one, in pool order
    IF pool = <<>> THEN <<>>
    ELSE LET last == pool[Len(pool)]
             front == SubSeq(pool, 1, Len(pool) - 1)
             same(ds) == activity_hash(ds, call.fields) = activity_hash(x, call.fields)
         IN  IF same(last) /\ \E i \in 1..Len(front) : same(front[i])
             THEN Append(Later(front, x), last)
             ELSE Later(front, x)

C4_LaterCollidingCandidatesReported ==
    AmbiguityRaised =>
        \A p \in Positions :
            Offending(p) =>
                LET x == ExcBefore(p)
                    others == Later(Pool, x)
                IN  /\ outcome.message = format_nonunique_key_error(x, call.fields, others)
                    /\ Len(outcome.message.targets) = Cardinality(Matches(x)) - 1

C4_Witness ==
    /\ AmbiguityRaised
    /\ Len(outcome.message.targets) = 1
    /\ \E p \in Positions : Offending(p) /\ Cardinality(Matches(ExcBefore(p))) = 2

(***************************************************************************)
(* C5. Relinking guard: with relink = False an exchange that carries an    *)
(* `input` before the call is the same after it, whatever the candidate    *)
(* pool; so is every exchange an earlier run has linked.                   *)
(***************************************************************************)
C5_RelinkingGuard ==
    (Linked /\ ~call.relink) =>
        \A p \in Positions :
            HasInput(ExcBefore(p)) => ExcAfter(p) = ExcBefore(p)

C5_Witness ==
    /\ Returned /\ ~call.relink
    /\ \E p \in Positions :
          /\ HasInput(ExcBefore(p)) /\ ExcBefore(p)["input"] = EarlierInput
          /\ Cardinality(Matches(ExcBefore(p))) = 1
          /\ Identity(Pool[FirstMatch(ExcBefore(p))]) # EarlierInput
          /\ ExcAfter(p)["input"] = EarlierInput

(***************************************************************************)
(* C6. Kind filter: when `kind` is given, every exchange whose type is     *)
(* not in `kind` is unchanged, also when its fingerprint matches one or    *)
(* several candidates.                                                     *)
(***************************************************************************)
C6_KindFilter ==
    (Linked /\ call.kind # {}) =>
        \A p \in Positions :
            Get(ExcBefore(p), "type", "") \notin call.kind => ExcAfter(p) = ExcBefore(p)

C6_Witness ==
    /\ Returned /\ call.kind # {}
    /\ \E p \in Positions :
          /\ ExcBefore(p)["type"] \notin call.kind
          /\ Matches(ExcBefore(p)) # {}
          /\ ExcAfter(p) = ExcBefore(p)

(***************************************************************************)
(* C7. Unresolved exchanges are kept: an eligible exchange that matches    *)
(* no candidate is left as it was, and the call removes, adds or reorders  *)
(* no dataset and no exchange: only `input` fields change.                 *)
(***************************************************************************)
C7_UnresolvedKept ==
    Linked =>
        /\ SameShape
        /\ \A p \in Positions :
              (Eligible(ExcBefore(p)) /\ Matches(ExcBefore(p)) = {}) =>
                  ExcAfter(p) = ExcBefore(p)

C7_Witness ==
    /\ Returned
    /\ Len(Pool) >= 1
    /\ \E p, q \in Positions :
          /\ Eligible(ExcBefore(p)) /\ Matches(ExcBefore(p)) = {}
          /\ ExcAfter(p) = ExcBefore(p) /\ ~HasInput(ExcAfter(p))
          /\ ExcAfter(q) # ExcBefore(q)

(***************************************************************************)
(* Vocabulary of the claims about extract_uncertainty_dict.                *)
(***************************************************************************)
Extracted == extracted.done /\ ~extracted.raised
Distribution(kind) ==
    "uncertainty" \in DOMAIN element /\ kind \in DOMAIN element["uncertainty"]
Attribute(kind, name) == element["uncertainty"][kind][name]
ShapeFields == {"scale", "shape", "minimum", "maximum"}

\* The record is demoted: undefined kind, loc the point amount, no shape field,
\* and a comment that ends with the note.
Demoted(data) ==
    /\ data["uncertainty type"] = UndefinedUncertainty
    /\ data["loc"] = element["amount"]
    /\ ShapeFields \cap DOMAIN data = {}
    /\ "comment" \in DOMAIN data
    /\ data["comment"] # <<>>
    /\ data["comment"][Len(data["comment"])] = InvalidNote

(***************************************************************************)
(* C8. Log-normal fallback: a log-normal distribution is demoted if and    *)
(* only if its scale is <= 0 or > 25; a demoted record has the undefined   *)
(* kind, loc equal to the point amount, no scale, shape, minimum or        *)
(* maximum, and a comment ending with the note; a scale in (0, 25] is      *)
(* retained with the log-normal kind, loc = mu and that scale.             *)
(***************************************************************************)
C8_LognormalFallback ==
    (extracted.done /\ Distribution("lognormal")) =>
        LET scale == Attribute("lognormal", "varianceWithPedigreeUncertainty")
            data == extracted.data
        IN  /\ ~extracted.raised
            /\ IF scale <= 0 \/ scale > 25
               THEN Demoted(data)
               ELSE /\ data["uncertainty type"] = LognormalUncertainty
                    /\ data["loc"] = Attribute("lognormal", "mu")
                    /\ data["scale"] = scale
                    /\ "comment" \notin DOMAIN data

C8_Witness ==
    /\ Extracted /\ Distribution("lognormal")
    /\ Attribute("lognormal", "varianceWithPedigreeUncertainty") = 30
    /\ Attribute("lognormal", "mu") # element["amount"]
    /\ Demoted(extracted.data)

(***************************************************************************)
(* C9. Normal fallback: a normal distribution is demoted if and only if    *)
(* its scale is <= 0; there is no ceiling, so a normal distribution with   *)
(* a scale above 25 is retained with the normal kind, loc = meanValue and  *)
(* that scale.                                                             *)
(***************************************************************************)
C9_NormalFallback ==
    (extracted.done /\ Distribution("normal") /\ ~Distribution("lognormal")) =>
        LET scale == Attribute("normal", "varianceWithPedigreeUncertainty")
            data == extracted.data
        IN  /\ ~extracted.raised
            /\ IF scale <= 0
               THEN Demoted(data)
               ELSE /\ data["uncertainty type"] = NormalUncertainty
                    /\ data["loc"] = Attribute("normal", "meanValue")
                    /\ data["scale"] = scale
                    /\ "comment" \notin DOMAIN data

C9_Witness ==
    /\ Extracted /\ Distribution("normal")
    /\ Attribute("normal", "varianceWithPedigreeUncertainty") = 30
    /\ extracted.data["uncertainty type"] = NormalUncertainty
    /\ extracted.data["scale"] = 30

(***************************************************************************)
(* C10. Bounded-kind validity: a triangular or uniform distribution is     *)
(* demoted if and only if minimum >= maximum; otherwise the record keeps   *)
(* its kind with minimum and maximum as given, loc the most likely value   *)
(* for triangular and the point amount for uniform. Hence every extracted  *)
(* record of triangular or uniform kind has minimum < maximum.             *)
(***************************************************************************)
BoundedKind(kind, id, loc) ==
    Distribution(kind) =>
        LET lo == Attribute(kind, "minValue")
            hi == Attribute(kind, "maxValue")
            data == extracted.data
        IN  /\ ~extracted.raised
            /\ IF lo >= hi
               THEN Demoted(data)
               ELSE /\ data["uncertainty type"] = id
                    /\ data["minimum"] = lo /\ data["maximum"] = hi
                    /\ data["loc"] = loc
                    /\ "comment" \notin DOMAIN data

C10_BoundedKindValidity ==
    extracted.done =>
        /\ BoundedKind("triangular", TriangularUncertainty,
                       IF Distribution("triangular")
                       THEN Attribute("triangular", "mostLikelyValue") ELSE 0)
        /\ BoundedKind("uniform", UniformUncertainty, element["amount"])
        /\ (~extracted.raised /\ extracted.data["uncertainty type"]
                                    \in {TriangularUncertainty, UniformUncertainty})
              => extracted.data["minimum"] < extracted.data["maximum"]

C10_Witness ==
    /\ Extracted /\ Distribution("triangular")
    /\ Attribute("triangular", "minValue") = 5
    /\ Attribute("triangular", "mostLikelyValue") = 10
    /\ Attribute("triangular", "maxValue") = 3
    /\ Demoted(extracted.data)

(***************************************************************************)
(* C11. Distribution validation failures are recovered locally: an         *)
(* element whose log-normal, normal, triangular or uniform distribution    *)
(* has invalid parameters (scale <= 0, log-normal scale > 25, minimum >=   *)
(* maximum) is extracted without an error, as a record of undefined kind;  *)
(* and no extracted record of log-normal, normal, triangular or uniform    *)
(* kind has such parameters.                                               *)
(***************************************************************************)
InvalidParameters ==
    \/ Distribution("lognormal")
          /\ (Attribute("lognormal", "varianceWithPedigreeUncertainty") <= 0
               \/ Attribute("lognormal", "varianceWithPedigreeUncertainty") > 25)
    \/ ~Distribution("lognormal") /\ Distribution("normal")
          /\ Attribute("normal", "varianceWithPedigreeUncertainty") <= 0
    \/ ~Distribution("lognormal") /\ ~Distribution("normal") /\ Distribution("triangular")
          /\ Attribute("triangular", "minValue") >= Attribute("triangular", "maxValue")
    \/ ~Distribution("lognormal") /\ ~Distribution("normal") /\ ~Distribution("triangular")
          /\ Distribution("uniform")
          /\ Attribute("uniform", "minValue") >= Attribute("uniform", "maxValue")

C11_InvalidDistributionRecovered ==
    extracted.done =>
        LET data == extracted.data
            kind == data["uncertainty type"]
        IN  /\ InvalidParameters =>
                  ~extracted.raised /\ kind = UndefinedUncertainty
            /\ ~extracted.raised =>
                  /\ kind = LognormalUncertainty => (data["scale"] > 0 /\ data["scale"] <= 25)
                  /\ kind = NormalUncertainty => data["scale"] > 0
                  /\ kind \in {TriangularUncertainty, UniformUncertainty} =>
                        data["minimum"] < data["maximum"]
                  /\ kind = UndefinedUncertainty => ShapeFields \cap DOMAIN data = {}

C11_Witness ==
    /\ Extracted /\ InvalidParameters
    /\ Distribution("uniform")
    /\ Attribute("uniform", "minValue") = Attribute("uniform", "maxValue")
    /\ extracted.data["uncertainty type"] = UndefinedUncertainty

(***************************************************************************)
(* C12. Pedigree capture: when the uncertainty child of the element has a  *)
(* pedigree matrix, the extracted record has a `pedigree` mapping with     *)
(* exactly the five canonical keys, each holding the integer of the        *)
(* source, whatever the distribution, also when the distribution is        *)
(* demoted to undefined.                                                   *)
(***************************************************************************)
CanonicalPedigreeKeys ==
    {"reliability", "completeness", "temporal correlation",
     "geographical correlation", "further technological correlation"}

HasPedigreeMatrix ==
    "uncertainty" \in DOMAIN element /\ "pedigreeMatrix" \in DOMAIN element["uncertainty"]

C12_PedigreeCaptured ==
    (Extracted /\ HasPedigreeMatrix) =>
        LET matrix == element["uncertainty"]["pedigreeMatrix"]
            data == extracted.data
        IN  /\ "pedigree" \in DOMAIN data
            /\ DOMAIN data["pedigree"] = CanonicalPedigreeKeys
            /\ data["pedigree"]["reliability"] = matrix["reliability"]
            /\ data["pedigree"]["completeness"] = matrix["completeness"]
            /\ data["pedigree"]["temporal correlation"] = matrix["temporalCorrelation"]
            /\ data["pedigree"]["geographical correlation"] = matrix["geographicalCorrelation"]
            /\ data["pedigree"]["further technological correlation"]
                  = matrix["furtherTechnologyCorrelation"]

C12_Witness ==
    /\ Extracted /\ HasPedigreeMatrix
    /\ Distribution("lognormal") /\ InvalidParameters
    /\ Demoted(extracted.data)
    /\ extracted.data["pedigree"]["further technological correlation"] = 5

(***************************************************************************)
(* C20. An exchange returned by extract_exchange is of type `production`   *)
(* exactly when the element has output group 0 or 2, and otherwise of      *)
(* type `biosphere` for an elementary and `technosphere` for an            *)
(* intermediate exchange; it has an `activity` field exactly when its      *)
(* type is not `biosphere`; and an elementary exchange with output group   *)
(* 0 or 2 is rejected with an error.                                       *)
(***************************************************************************)
ProductGroup == "outputGroup" \in DOMAIN element /\ element["outputGroup"] \in {"0", "2"}

C20_ExchangeTypeAndActivity ==
    extracted.done =>
        /\ (element["tag"] = ElementaryTag /\ ProductGroup) => extracted.raised
        /\ ~extracted.raised =>
              LET data == extracted.data
              IN  /\ data["type"] = "production" <=> ProductGroup
                  /\ ~ProductGroup =>
                        data["type"] = IF element["tag"] = ElementaryTag
                                       THEN "biosphere" ELSE "technosphere"
                  /\ data["type"] = "biosphere" => "activity" \notin DOMAIN data
                  /\ data["type"] # "biosphere" => "activity" \in DOMAIN data

C20_Witness ==
    /\ Extracted
    /\ element["tag"] = ElementaryTag
    /\ "activityLinkId" \in DOMAIN element
    /\ extracted.data["type"] = "biosphere"
    /\ "activity" \notin DOMAIN extracted.data

(***************************************************************************)
(* Vocabulary of the claims about the strategies of a pipeline.            *)
(***************************************************************************)
Ran(op) == call.op = op
Completed(op) == call.op = op /\ ~outcome.raised
Members == 1..Len(before)
ProductsOf(ds) == production_exchanges(ds)
\* The dataset has exactly one production exchange and no reference product yet.
Assignable(ds) == Len(ProductsOf(ds)) = 1 /\ ~Truthy(ds, "reference product")

C14_OtherDatasetsUntouched ==
    Ran("assign_only_product_as_production") =>
        /\ Len(unlinked) = Len(before)
        /\ \A d \in Members :
              /\ ~Assignable(before[d]) => unlinked[d] = before[d]
              /\ unlinked[d]["exchanges"] = before[d]["exchanges"]

C14_Witness ==
    /\ Completed("assign_only_product_as_production")
    /\ \E d, f \in Members :
          /\ Len(ProductsOf(before[d])) = 2 /\ ~Truthy(before[d], "reference product")
          /\ unlinked[d] = before[d]
          /\ Assignable(before[f]) /\ unlinked[f] # before[f]

(***************************************************************************)
(* C15 as claimed. When assign_only_product_as_production assigns a        *)
(* reference product to a dataset, a `name`, a `unit` and a `production    *)
(* amount` that the dataset already had keep their values.                 *)
(***************************************************************************)
C15_SpecifiedFieldsKept ==
    Completed("assign_only_product_as_production") =>
        \A d \in Members :
            Assignable(before[d]) =>
                /\ Truthy(before[d], "name") => unlinked[d]["name"] = before[d]["name"]
                /\ Truthy(before[d], "unit") => unlinked[d]["unit"] = before[d]["unit"]
                /\ "production amount" \in DOMAIN before[d] =>
                      unlinked[d]["production amount"] = before[d]["production amount"]

(***************************************************************************)
(* C16 as claimed. Identity uniqueness: once add_database_name and         *)
(* set_code_by_activity_hash have run on a working set, every dataset has  *)
(* a `code` and no two different datasets of the set have the same         *)
(* (database, code) pair.                                                  *)
(***************************************************************************)
IdentityAssigned ==
    \/ Completed("set_code_by_activity_hash") /\ call.prev = "add_database_name"
    \/ Completed("add_database_name") /\ call.prev = "set_code_by_activity_hash"

C16_IdentityUnique ==
    IdentityAssigned =>
        /\ \A d \in 1..Len(unlinked) : "code" \in DOMAIN unlinked[d]
        /\ \A d, e \in 1..Len(unlinked) :
              (d # e /\ unlinked[d] # unlinked[e]) =>
                  <<unlinked[d]["database"], unlinked[d]["code"]>>
                      # <<unlinked[e]["database"], unlinked[e]["code"]>>

(***************************************************************************)
(* C17 as claimed. Pipeline failure state: when a strategy of the          *)
(* pipeline raises, the working set is the state that the last completed   *)
(* strategy produced: the failing strategy has left no modification.       *)
(***************************************************************************)
C17_FailingStrategyLeavesNothing ==
    outcome.raised => unlinked = before

(***************************************************************************)
(* C17 as amended. When a strategy of the pipeline raises, nothing is      *)
(* rolled back: the working set is the state that the last completed       *)
(* strategy produced, changed by what the failing strategy did in place    *)
(* before it raised, and the records it had not reached are as they were.  *)
(* A linking strategy that raises the ambiguity error has set `input` on   *)
(* the eligible exchanges with exactly one matching candidate that         *)
(* precede the offending exchange, and has left the offending exchange     *)
(* and all later ones as they were. normalize_units raising on a list of   *)
(* parameters has changed `unit` fields only, in the datasets up to the    *)
(* one it raised on. A strategy that raises before it changes a record     *)
(* (the index build of a linking strategy, the length check of             *)
(* split_exchanges) has changed nothing.                                   *)
(***************************************************************************)
WithoutUnit(obj) == Delete(obj, {"unit", "reference unit", "exchanges", "parameters"})

SameExceptUnits(old, new) ==
    /\ DOMAIN new = DOMAIN old
    /\ WithoutUnit(new) = WithoutUnit(old)
    /\ "parameters" \in DOMAIN old => new["parameters"] = old["parameters"]
    /\ Len(new["exchanges"]) = Len(old["exchanges"])
    /\ \A e \in 1..Len(old["exchanges"]) :
          /\ DOMAIN new["exchanges"][e] = DOMAIN old["exchanges"][e]
          /\ WithoutUnit(new["exchanges"][e]) = WithoutUnit(old["exchanges"][e])

\* The first dataset whose parameters are a list: where normalize_units and
\* convert_activity_parameters_to_list raise.
ListParameters(ds) == "parameters" \in DOMAIN ds /\ ds["parameters"].kind = "list"
FirstWithList(f) ==
    /\ f \in Members /\ ListParameters(before[f])
    /\ \A d \in Members : d < f => ~ListParameters(before[d])

C17_FailingStrategyLeavesItsPart ==
    (outcome.raised /\ call.n >= 1) =>
        /\ Len(unlinked) = Len(before)
        /\ call.op \in {"link_iterable_by_fields", "split_exchanges", "normalize_units",
                         "convert_activity_parameters_to_list"}
        /\ Ran("link_iterable_by_fields") =>
              /\ SameShape
              /\ MissingIdentityRaised => unlinked = before
              /\ MissingIdentityRaised \/ \E p \in Positions : Offending(p)
              /\ \A p \in Positions :
                    Offending(p) =>
                        \A q \in Positions :
                            IF Precedes(q, p)
                            THEN IF Eligible(ExcBefore(q))
                                    /\ Cardinality(Matches(ExcBefore(q))) = 1
                                 THEN ExcAfter(q) =
                                          SetItem(ExcBefore(q), "input",
                                                  Identity(Pool[FirstMatch(ExcBefore(q))]))
                                 ELSE ExcAfter(q) = ExcBefore(q)
                            ELSE ExcAfter(q) = ExcBefore(q)
        /\ Ran("split_exchanges") =>
              /\ Len(call.changed_attributes) # 1
              /\ unlinked = before
        /\ (Ran("normalize_units") \/ Ran("convert_activity_parameters_to_list")) =>
              /\ \E f \in Members : FirstWithList(f)
              /\ \A f, d \in Members :
                    FirstWithList(f) =>
                        /\ d > f => unlinked[d] = before[d]
                        /\ (Ran("normalize_units") /\ d <= f) =>
                              SameExceptUnits(before[d], unlinked[d])
                        /\ (Ran("convert_activity_parameters_to_list") /\ d = f) =>
                              unlinked[d] = before[d]

C17_Witness ==
    /\ call.n = 2 /\ before # <<>>
    /\ AmbiguityRaised
    /\ \A d \in Members : "database" \in DOMAIN before[d]
    /\ \E p, q \in Positions :
          /\ Offending(p) /\ Precedes(q, p)
          /\ ~IsLinked(ExcBefore(q)) /\ IsLinked(ExcAfter(q))

(***************************************************************************)
(* C18 as claimed. Exchanges are removed only by drop_unlinked: in every   *)
(* step of a pipeline, a dataset has fewer exchanges after the step than   *)
(* before it only if the step is drop_unlinked, and drop_unlinked leaves   *)
(* exactly the exchanges that have an `input`, in their order.             *)
(***************************************************************************)
C18_OnlyDropUnlinkedRemoves ==
    [][ /\ Len(unlinked') = Len(unlinked)
        /\ \A d \in 1..Len(unlinked) :
              /\ Len(unlinked'[d]["exchanges"]) < Len(unlinked[d]["exchanges"]) =>
                    call'.op = "drop_unlinked"
              /\ call'.op = "drop_unlinked" =>
                    unlinked'[d]["exchanges"] =
                        LET old == unlinked[d]["exchanges"]
                        IN  Filter(old, [i \in 1..Len(old) |-> "input" \in DOMAIN old[i]
                                                                /\ old[i]["input"] # <<>>]) ]_vars

(***************************************************************************)
(* C19 as claimed. Idempotence: when a strategy of the pipeline is         *)
(* applied a second time in succession with the same arguments, the        *)
(* second application completes without error and leaves the working set   *)
(* as the first application left it.                                       *)
(***************************************************************************)
C19_EveryStrategyIdempotent ==
    call.repeat => (~outcome.raised /\ unlinked = before)

(***************************************************************************)
(* C19 as amended. The same holds for normalize_units,                     *)
(* tupleize_categories, add_database_name, set_code_by_activity_hash,      *)
(* assign_only_product_as_production, drop_unlinked and                    *)
(* link_iterable_by_fields with relink=False, whenever the first           *)
(* application completes; it does not hold for                             *)
(* convert_activity_parameters_to_list and split_exchanges.                *)
(***************************************************************************)
IdempotentStrategies ==
    {"normalize_units", "tupleize_categories", "add_database_name",
     "set_code_by_activity_hash", "assign_only_product_as_production",
     "drop_unlinked", "link_iterable_by_fields"}

C19_IdempotentStrategies ==
    (call.repeat /\ call.op \in IdempotentStrategies) =>
        (~outcome.raised /\ unlinked = before)

\* The second application of tupleize_categories, normalize_units and of a
\* linking call, each on a working set that the first application has changed.
C19_Witness ==
    /\ call.repeat /\ call.n = 2 /\ unlinked = before
    /\ \/ /\ Ran("tupleize_categories")
          /\ \E p \in Positions :
                "categories" \in DOMAIN ExcAfter(p) /\ ExcAfter(p)["categories"].tuple
       \/ /\ Ran("link_iterable_by_fields")
          /\ \E p \in Positions :
                ExcAfter(p)["type"] = "production" /\ IsLinked(ExcAfter(p))

(***************************************************************************)
(* C21. Index build precedes mutation: when link_iterable_by_fields fails  *)
(* with the missing-identity error, the collection is as it was before     *)
(* the call, so every `input` is as before, in external and in internal    *)
(* mode.                                                                   *)
(***************************************************************************)
C21_MissingIdentityBeforeMutation ==
    MissingIdentityRaised => unlinked = before

\* The error is raised by a later candidate, after the index has got a
\* candidate with an identity that an eligible exchange matches uniquely.
C21_Witness ==
    /\ MissingIdentityRaised /\ ~call.internal
    /\ \E p \in Positions :
          /\ Eligible(ExcBefore(p)) /\ Cardinality(Matches(ExcBefore(p))) = 1
          /\ HasIdentity(Pool[FirstMatch(ExcBefore(p))])
          /\ FirstMatch(ExcBefore(p)) = 1
          /\ ExcAfter(p) = ExcBefore(p)

(***************************************************************************)
(* C22. Partial commit on ambiguity: when link_iterable_by_fields raises   *)
(* the ambiguity error at some exchange, every eligible exchange before    *)
(* it in iteration order (datasets in order, exchanges in order) that      *)
(* matched exactly one candidate has the `input` of that candidate, and    *)
(* the offending exchange and every exchange after it are as before the    *)
(* call.                                                                   *)
(***************************************************************************)
C22_PartialCommitOnAmbiguity ==
    AmbiguityRaised =>
        \E p \in Positions :
            /\ Offending(p)
            /\ \A q \in Positions :
                  IF Precedes(q, p)
                  THEN (Eligible(ExcBefore(q)) /\ Cardinality(Matches(ExcBefore(q))) = 1) =>
                          /\ "input" \in DOMAIN ExcAfter(q)
                          /\ ExcAfter(q)["input"] = Identity(Pool[FirstMatch(ExcBefore(q))])
                  ELSE ExcAfter(q) = ExcBefore(q)

\* The offending exchange is in the first dataset, after an exchange the call
\* has linked, and the second dataset holds an exchange that matches exactly
\* one candidate and is not linked.
C22_Witness ==
    /\ AmbiguityRaised
    /\ \E p, q, r \in Positions :
          /\ Offending(p) /\ Precedes(q, p) /\ Precedes(p, r) /\ p[1] < r[1]
          /\ ~HasInput(ExcBefore(q)) /\ HasInput(ExcAfter(q))
          /\ Eligible(ExcBefore(r)) /\ Cardinality(Matches(ExcBefore(r))) = 1
          /\ ~HasInput(ExcAfter(r))

(***************************************************************************)
(* Vocabulary of the claims about the index and the registry of a call.    *)
(***************************************************************************)
\* The index and the registry that the call builds from its pool, as far as
\* the build gets.
Registry == BuildIndex(Pool, call.fields, 1, EmptyIndex)
Fingerprint(x) == activity_hash(x, call.fields)
MatchesRegistry(p) ==
    Eligible(ExcBefore(p)) /\ Fingerprint(ExcBefore(p)) \in DOMAIN Registry.duplicates

(***************************************************************************)
(* C23 as claimed. Ambiguity is raised only on an actual match: the call   *)
(* raises the ambiguity error if and only if some exchange that passes     *)
(* the filter has a fingerprint present in the duplicates registry.        *)
(***************************************************************************)
C23_AmbiguityIffRegistryMatch ==
    Linked => (AmbiguityRaised <=> \E p \in Positions : MatchesRegistry(p))

(***************************************************************************)
(* C23 as amended. The call raises the ambiguity error if and only if the  *)
(* build of the index does not fail with the missing-identity error and    *)
(* some exchange that passes the filter has a fingerprint present in the   *)
(* duplicates registry. Duplicated candidates that no eligible exchange    *)
(* matches do not make the call fail: when the call returns, every         *)
(* eligible exchange whose fingerprint is in the index has the `input` of  *)
(* the index, and every other exchange is as before.                       *)
(***************************************************************************)
C23_AmbiguityOnlyOnMatch ==
    Linked =>
        /\ AmbiguityRaised <=>
              (~MissingIdentityRaised /\ \E p \in Positions : MatchesRegistry(p))
        /\ Returned =>
              \A p \in Positions :
                  IF Eligible(ExcBefore(p))
                     /\ Fingerprint(ExcBefore(p)) \in DOMAIN Registry.candidates
                  THEN ExcAfter(p) =
                          SetItem(ExcBefore(p), "input",
                                  Registry.candidates[Fingerprint(ExcBefore(p))])
                  ELSE ExcAfter(p) = ExcBefore(p)

\* The pool holds a duplicated fingerprint that only an exchange outside the
\* kind filter has; the call returns and has linked another exchange.
C23_Witness ==
    /\ Returned
    /\ \E p, q \in Positions :
          /\ ~Eligible(ExcBefore(p))
          /\ Fingerprint(ExcBefore(p)) \in DOMAIN Registry.duplicates
          /\ ExcAfter(p) = ExcBefore(p)
          /\ Eligible(ExcBefore(q)) /\ ~HasInput(ExcBefore(q)) /\ HasInput(ExcAfter(q))

(***************************************************************************)
(* C24. The index and the registry are built anew by every linking call:   *)
(* in any succession of linking calls and of strategies that change the    *)
(* identifiers of the candidates, every `input` that a call sets is the    *)
(* (database, code) pair that a candidate with the fingerprint of the      *)
(* exchange carries in the pool of that call, and a call raises the        *)
(* ambiguity error only for a fingerprint that is duplicated in its own    *)
(* pool, whatever the pools of the calls before it held.                   *)
(***************************************************************************)
C24_IndexBuiltPerCall ==
    Linked =>
        /\ \A p \in Positions :
              ExcAfter(p) # ExcBefore(p) =>
                  \E i \in Matches(ExcBefore(p)) :
                      /\ HasIdentity(Pool[i])
                      /\ ExcAfter(p) = SetItem(ExcBefore(p), "input", Identity(Pool[i]))
        /\ AmbiguityRaised =>
              \E p \in Positions :
                  Eligible(ExcBefore(p)) /\ Cardinality(Matches(ExcBefore(p))) >= 2

\* The candidates of the earlier pool with the fingerprint of x.
EarlierMatches(x) ==
    {i \in 1..Len(call.earlier.pool) : Fingerprint(call.earlier.pool[i]) = Fingerprint(x)}

\* A fingerprint duplicated in the pool of an earlier linking call has one
\* candidate in the pool of this call, and the exchange is linked to it, with
\* an identity that no candidate of the earlier pool carried.
C24_Witness ==
    /\ Returned /\ call.earlier.used
    /\ \E p \in Positions :
          /\ Eligible(ExcBefore(p))
          /\ Cardinality(EarlierMatches(ExcBefore(p))) >= 2
          /\ Cardinality(Matches(ExcBefore(p))) = 1
          /\ ExcAfter(p)["input"] = Identity(Pool[FirstMatch(ExcBefore(p))])
          /\ \A i \in 1..Len(call.earlier.pool) :
                HasIdentity(call.earlier.pool[i]) =>
                    Identity(call.earlier.pool[i]) # ExcAfter(p)["input"]

(***************************************************************************)
(* C25 as claimed. Ordering of code assignment and internal linking:       *)
(* internal linking of a record set in which some dataset lacks            *)
(* `database` or `code` fails with the missing-identity error, and         *)
(* internal linking after add_database_name and                            *)
(* set_code_by_activity_hash have run on the set never fails with the      *)
(* missing-identity error.                                                 *)
(***************************************************************************)
IdentityGiven == call.named /\ call.coded

C25_InternalLinkingNeedsIdentity ==
    (Linked /\ call.internal) =>
        /\ (\E i \in 1..Len(Pool) : ~HasIdentity(Pool[i])) => MissingIdentityRaised
        /\ IdentityGiven => ~MissingIdentityRaised

\* The second half of C25 alone, which holds.
C25_NoMissingIdentityAfterAssignment ==
    (Linked /\ call.internal /\ IdentityGiven) =>
        /\ \A i \in 1..Len(Pool) : HasIdentity(Pool[i])
        /\ ~MissingIdentityRaised

(***************************************************************************)
(* Vocabulary of the claims about link_technosphere_by_activity_hash.      *)
(***************************************************************************)
TechnosphereLinked == call.op = "link_technosphere_by_activity_hash"
Internally == TechnosphereLinked /\ ~call.external_db_name.given
Registered ==
    TechnosphereLinked /\ call.external_db_name.given
        /\ call.external_db_name.name \in {"B", "C"}
Unregistered ==
    TechnosphereLinked /\ call.external_db_name.given
        /\ call.external_db_name.name \notin {"B", "C"}

\* The records of the named database that are processes or have no type.
Processes ==
    LET records == databases[call.external_db_name.name]
    IN  Filter(records, [i \in 1..Len(records) |->
                            "type" \notin DOMAIN records[i] \/ records[i]["type"] = "process"])

\* What link_iterable_by_fields makes of the collection with the kind and the
\* pool that the claim gives.
AsLinkIterableByFields ==
    link_iterable_by_fields(before, IF Internally THEN <<>> ELSE Processes, call.fields,
                            {"technosphere", "substitution", "production"}, Internally, FALSE)

(***************************************************************************)
(* C26. link_technosphere_by_activity_hash behaves exactly like            *)
(* link_iterable_by_fields with kind = {technosphere, substitution,        *)
(* production} and relink = False: it never modifies a biosphere           *)
(* exchange; without a database name the pool is the collection itself;    *)
(* with a name that is not a registered database it raises StrategyError   *)
(* before any exchange is modified; with a registered name only the        *)
(* records of type process, or without type, are candidates.               *)
(***************************************************************************)
C26_TechnosphereLinking ==
    TechnosphereLinked =>
        /\ \A p \in Positions :
              Get(ExcBefore(p), "type", "") = "biosphere" => ExcAfter(p) = ExcBefore(p)
        /\ Unregistered =>
              outcome.raised /\ outcome.message = CannotFindMessage /\ unlinked = before
        /\ ~Unregistered =>
              /\ unlinked = AsLinkIterableByFields.db
              /\ outcome.raised = AsLinkIterableByFields.raised
              /\ outcome.message = AsLinkIterableByFields.message
        /\ \A p \in Positions :
              ExcAfter(p) # ExcBefore(p) =>
                  LET candidates == IF Internally THEN before ELSE Processes
                  IN  \E i \in 1..Len(candidates) :
                          /\ activity_hash(candidates[i], call.fields)
                                = activity_hash(ExcBefore(p), call.fields)
                          /\ ExcAfter(p) =
                                SetItem(ExcBefore(p), "input", Identity(candidates[i]))

\* A production exchange is linked to the process of the registered database,
\* whose fingerprint a record of another type shares, and a biosphere
\* exchange that matches a candidate is left alone.
C26_Witness ==
    /\ Registered /\ ~outcome.raised
    /\ \E i, j \in 1..Len(databases[call.external_db_name.name]) :
          LET records == databases[call.external_db_name.name]
          IN  /\ i # j
              /\ activity_hash(records[i], call.fields) = activity_hash(records[j], call.fields)
    /\ \E p, q \in Positions :
          /\ ExcBefore(p)["type"] = "production"
          /\ HasInput(ExcAfter(p)) /\ ExcAfter(p)["input"] = <<"B", "X">>
          /\ ExcBefore(q)["type"] = "biosphere" /\ ExcBefore(q)["name"] = "Iron"
          /\ ExcAfter(q) = ExcBefore(q)

(***************************************************************************)
(* C27 as claimed. Unit normalization composes with parameter conversion   *)
(* in either order: normalize_units completes without error and            *)
(* normalizes the `unit` of every dataset, exchange and parameter, both    *)
(* when `parameters` is a mapping keyed by name and when it is already a   *)
(* list of named records.                                                  *)
(***************************************************************************)
\* The units of the parameters of a dataset, in either shape.
ParameterUnits(ds) ==
    IF "parameters" \notin DOMAIN ds THEN <<>>
    ELSE LET items == ds["parameters"].items
         IN  [i \in 1..Len(items) |->
                IF ds["parameters"].kind = "dict" THEN Get(items[i][2], "unit", "")
                                                  ELSE Get(items[i], "unit", "")]
UnitNormalized(old, new) ==
    "unit" \in DOMAIN old =>
        ("unit" \in DOMAIN new /\ new["unit"] = normalize_units_function(old["unit"]))

C27_NormalizeUnitsEitherOrder ==
    Ran("normalize_units") =>
        /\ ~outcome.raised
        /\ \A d \in Members :
              /\ UnitNormalized(before[d], unlinked[d])
              /\ \A e \in 1..Len(before[d]["exchanges"]) :
                    UnitNormalized(before[d]["exchanges"][e], unlinked[d]["exchanges"][e])
              /\ ParameterUnits(unlinked[d]) =
                    [i \in 1..Len(ParameterUnits(before[d])) |->
                        normalize_units_function(ParameterUnits(before[d])[i])]

\* The half of C27 that holds: with every `parameters` a mapping, or absent.
C27_NormalizeUnitsBeforeConversion ==
    (Ran("normalize_units") /\ \A d \in Members : ~ListParameters(before[d])) =>
        C27_NormalizeUnitsEitherOrder

(***************************************************************************)
(* Vocabulary of the claims about split_exchanges.                         *)
(***************************************************************************)
\* The exchange is unlinked and has every value of filter_params.
ToSplit(x) ==
    /\ ~HasInput(x)
    /\ \A key \in DOMAIN call.filter_params :
          key \in DOMAIN x /\ x[key] = call.filter_params[key]
\* The exchanges of a dataset that the call has to leave, in their order.
Left(d) ==
    LET old == before[d]["exchanges"]
    IN  Filter(old, [i \in 1..Len(old) |-> ~ToSplit(old[i])])
\* The exchanges of a dataset after the call that follow the ones it left.
Created(d) ==
    LET new == unlinked[d]["exchanges"]
    IN  SubSeq(new, Len(Left(d)) + 1, Len(new))

(***************************************************************************)
(* C28 as claimed. split_exchanges resets uncertainty: every exchange it   *)
(* creates from an unlinked exchange that matches filter_params has the    *)
(* field `uncertainty type` equal to 0, whatever uncertainty type the      *)
(* original had; the exchanges that have an `input` or do not match are    *)
(* left unchanged, in their order.                                         *)
(***************************************************************************)
C28_SplitResetsUncertainty ==
    Completed("split_exchanges") =>
        \A d \in Members :
            /\ Len(unlinked[d]["exchanges"]) >= Len(Left(d))
            /\ SubSeq(unlinked[d]["exchanges"], 1, Len(Left(d))) = Left(d)
            /\ \A i \in 1..Len(Created(d)) :
                  /\ "uncertainty type" \in DOMAIN Created(d)[i]
                  /\ Created(d)[i]["uncertainty type"] = UndefinedUncertainty

\* The half of C28 that holds, and what the copies carry instead: the field
\* `uncertainty_type` is 0 and `uncertainty type` is as in the original.
C28_SplitLeavesTheOthers ==
    Completed("split_exchanges") =>
        \A d \in Members :
            /\ Len(unlinked[d]["exchanges"]) >= Len(Left(d))
            /\ SubSeq(unlinked[d]["exchanges"], 1, Len(Left(d))) = Left(d)
            /\ \A i \in 1..Len(Created(d)) :
                  /\ "uncertainty_type" \in DOMAIN Created(d)[i]
                  /\ Created(d)[i]["uncertainty_type"] = 0

(***************************************************************************)
(* Vocabulary of the claims about read_method_data_set: the methods that   *)
(* extract has read, each with the categories and the weighting sets as    *)
(* parsed from the rows and with the datasets returned for it.             *)
(***************************************************************************)
MethodsRead == {scan.methods[i] : i \in 1..Len(scan.methods)}
AmountsOf(cfs) == [k \in 1..Len(cfs) |-> cfs[k].amount]
CategoryDataset(m, c) == m.completed_data[c]
WeightingDataset(m, s) == m.completed_data[Len(m.category_data) + s]

\* The parsed amounts of the categories named nw_name, each times scale.
Weighted(m, nw_name, scale) ==
    LET matching == Filter(m.category_data,
                           [c \in 1..Len(m.category_data) |->
                               m.category_data[c].name = nw_name])
    IN  Concat([c \in 1..Len(matching) |->
                   [k \in 1..Len(matching[c].cf_data) |->
                       matching[c].cf_data[k].amount * scale]])

(***************************************************************************)
(* C29 as claimed. The amounts of every impact-category dataset returned   *)
(* by read_method_data_set are the amounts parsed from the Substances      *)
(* rows, however many Normalization-Weighting sets the method has, and     *)
(* the amounts of every weighting-set dataset are the parsed amounts       *)
(* times the weight that this set gives to the category.                   *)
(***************************************************************************)
C29_WeightsDoNotCompound ==
    \A m \in MethodsRead :
        /\ \A c \in 1..Len(m.category_data) :
              AmountsOf(CategoryDataset(m, c).data) = AmountsOf(m.category_data[c].cf_data)
        /\ \A s \in 1..Len(m.nw_data) :
              AmountsOf(WeightingDataset(m, s).data) =
                  Concat([i \in 1..Len(m.nw_data[s].nw_data) |->
                             Weighted(m, m.nw_data[s].nw_data[i][1],
                                      m.nw_data[s].nw_data[i][2])])

\* What holds instead: a method without weighting sets, or whose weights are
\* all 1, is returned with the parsed amounts.
C29_AmountsWithoutWeighting ==
    \A m \in MethodsRead :
        (\A s \in 1..Len(m.nw_data) : \A i \in 1..Len(m.nw_data[s].nw_data) :
            m.nw_data[s].nw_data[i][2] = 1) =>
            \A c \in 1..Len(m.category_data) :
                AmountsOf(CategoryDataset(m, c).data) = AmountsOf(m.category_data[c].cf_data)

(***************************************************************************)
(* Vocabulary of the claim about the section scanner, stated on the rows   *)
(* of the file and on the index a call of get_next_method_index started    *)
(* from. Rows are numbered from 0, as in the source.                       *)
(***************************************************************************)
RowNumbers == 0..(Len(lines) - 1)
IsMethodRow(j) == lines[j + 1] # <<>> /\ lines[j + 1][1] = "Method"
IsSkippableRow(j) == lines[j + 1] # <<>> /\ lines[j + 1][1] \in SKIPPABLE_SECTIONS
IsEndRow(j) == lines[j + 1] # <<>> /\ strip(lines[j + 1][1]) = "End"

\* The rows from row j on that lie in a skippable section: after the row that
\* opens the section, up to and including its End row, or up to the last row
\* when the section has no End. open tells whether row j follows an open section.
RECURSIVE SectionRows(_, _)
SectionRows(j, open) ==
    IF j >= Len(lines) THEN {}
    ELSE IF open THEN {j} \cup SectionRows(j + 1, ~IsEndRow(j))
    ELSE SectionRows(j + 1, IsSkippableRow(j))

\* Row j lies in a skippable section that was opened at or after row start.
InsideSection(start, j) == j \in SectionRows(start, FALSE)

\* The Method rows that a scan from row start can find.
MethodRowsFrom(start) ==
    {j \in RowNumbers : j >= start /\ IsMethodRow(j) /\ ~InsideSection(start, j)}

Least(S) == CHOOSE x \in S : \A y \in S : x <= y

ExtractEnded == scan.pc \in {"returned", "raised"}

\* get_next_method_index returns the index after the first Method row outside
\* the skipped sections, and raises EndOfDatasets exactly when there is none;
\* no more methods are read than the file has Method rows.
C30_Result ==
    /\ scan.pc = "read_method_data_set" =>
          /\ MethodRowsFrom(scan.start) # {}
          /\ line_index = Least(MethodRowsFrom(scan.start)) + 1
    /\ scan.pc = "returned" =>
          /\ MethodRowsFrom(scan.start) = {}
          /\ line_index = Len(lines)
    /\ Len(scan.methods) <= Cardinality({j \in RowNumbers : IsMethodRow(j)})

\* Every iteration of the two loops of the scanner moves the index on, the
\* index never goes back, and every call of get_next_method_index in extract
\* starts further on than the one before and returns an index past its start.
C30_Progress ==
    /\ line_index' >= line_index
    /\ line_index' <= Len(lines)
    /\ (scan'.pc = scan.pc /\ ~ExtractEnded) => line_index' > line_index
    /\ scan'.start >= scan.start
    /\ (scan.pc = "read_method_data_set" /\ scan'.pc = "get_next_method_index") =>
          scan'.start > scan.start
    /\ scan'.pc = "read_method_data_set" => line_index' > scan.start

(***************************************************************************)
(* C30. The section scanner terminates on every finite list of rows:       *)
(* get_next_method_index returns the index just after the first Method row *)
(* at or after its start index that is outside every skippable section,    *)
(* or raises EndOfDatasets when the rows run out, also inside a section    *)
(* without End; the index grows on every iteration, and extract ends       *)
(* after finitely many methods.                                            *)
(***************************************************************************)
C30_ScannerTerminates ==
    /\ []C30_Result
    /\ [][C30_Progress]_vars
    /\ <>[]ExtractEnded

\* extract has ended by EndOfDatasets after reading a method, and the rows run
\* out inside a section without End that holds a Method row; an earlier
\* section with a Method row in it was skipped up to its End row.
C30_Witness ==
    /\ scan.pc = "returned"
    /\ Len(scan.methods) >= 1
    /\ \E j \in RowNumbers : IsMethodRow(j) /\ j >= scan.start /\ InsideSection(scan.start, j)
    /\ \E j \in RowNumbers : IsMethodRow(j) /\ j < scan.start /\ InsideSection(0, j)
====
